---- MODULE Spec2Model ----
(***************************************************************************)
(* A model of the dialogue-timeline audio synthesis engine of DubbingBotV1 *)
(* (VideoChunker, AudioMixer, TranslationOptimizer and the PCM/WAV codec   *)
(* and the processVideo pipeline of useVideoProcessor).                    *)
(*                                                                         *)
(* The chunker, the codec and the mixer are pure, synchronous computations.*)
(* Each is modelled as an operator computed the way the code computes it,  *)
(* and checked under a specification whose Init draws the inputs from      *)
(* bounded sets and whose actions apply the operation to them.  The        *)
(* asynchronous functions take one step per awaited response.              *)
(*   SpecChunker    chunkVideo and the re-chunking of its output           *)
(*   SpecOrder      optimizeChunkOrder on arbitrary chunk lists            *)
(*   SpecValidate   validateChunks, on chunkVideo's output and on any      *)
(*                  chunk list                                             *)
(*   SpecCodec      audioBufferToWavBlob and manualDecodeAudioData         *)
(*   SpecMixer      mixAudioBuffers                                        *)
(*   SpecProcess    processVideo from the translation to the end of the    *)
(*                  synthesis loop                                         *)
(*   SpecOptimizer  batchOptimizeTranslations                              *)
(*   SpecApp        the handlers and renders of App, with the head of      *)
(*                  processVideo                                           *)
(*   SpecRecording  processVideo up to its end, the recording of the       *)
(*                  dubbed video included; SpecRecordingFair adds that     *)
(*                  the event loop runs what is queued                     *)
(***************************************************************************)
EXTENDS Integers, Sequences, FiniteSets, TLC

VARIABLES
    stage,          \* position of the modelled run
    segments,       \* chunkVideo: the DialogueSegment[] argument
    gapThreshold,   \* chunkVideo: the gapThreshold argument
    chunks,         \* the VideoChunk[] returned by chunkVideo (or given to optimizeChunkOrder)
    rechunked,      \* chunkVideo applied to the segments of `chunks`
    ordered,        \* the VideoChunk[] returned by optimizeChunkOrder
    validation,     \* what validateChunks returned and warned about
    buffer,         \* audioBufferToWavBlob: the AudioBuffer argument
    wav,            \* the bytes of the Blob returned by audioBufferToWavBlob
    decoded,        \* the result of manualDecodeAudioData on the sample bytes of `wav`
    clips,          \* mixAudioBuffers: the buffers argument
    totalDuration,  \* mixAudioBuffers: the totalDuration argument
    placed,         \* outputData when the placement loop of mixAudioBuffers ends
    limited,        \* outputData when applySoftLimiter returns
    output,         \* outputData of the AudioBuffer returned by mixAudioBuffers
    allDialogueSegments,        \* processVideo: the parsed transcription
    speakerProfiles,            \* processVideo: speakerId -> voiceName of the profile
    videoDuration,              \* processVideo: const duration = videoElement.duration
    translationResponse,        \* processVideo: the lines of translationResponse.text
    translatedSegments,         \* processVideo: the segments with their translated text
    segmentIndex,               \* processVideo: the segment the synthesis loop is at
    ttsRequests,                \* the segments a speech-synthesis request was sent for
    ttsResults,                 \* what each of those requests came back with
    ttsLogs,                    \* the ttsLogs state of the hook
    audioGeneratedSuccessfully, \* processVideo: the flag of that name
    mainChannelData,            \* the samples of fullDubAudioBuffer
    processingState,            \* the status of the processingState state of the hook
    error,                      \* the error state of the hook
    batchSegments,      \* batchOptimizeTranslations: the segments argument
    groupedSegments,    \* batchOptimizeTranslations: the groups still to translate
    batchResult,        \* batchOptimizeTranslations: translatedSegments
    contextCalls,       \* the context of each optimizeTranslation call, as the
                        \* positions (from 1) in `batchSegments` of contextSegments
    apiKey,             \* App: the apiKey state
    videoFile,          \* App: the videoFile state ("null" for null)
    targetLang,         \* App: the targetLang state
    processVideoApiKey, \* the apiKey the processVideo callback in use closed over
    renderedView,       \* what renderContent returned at the last render
    lastAlert,          \* the message of the last alert(), "none" before any
    playback,           \* videoElement: paused, waiting, playing or ended
    playPromise,        \* the promise videoElement.play() returned
    recorderState,      \* recorder.state
    recordedChunks,     \* the sizes of the blobs in recordedChunks
    recordingPromise,   \* recordingPromise
    mediaTasks,         \* queued tasks of the media element, first to run first
    recorderTasks,      \* queued tasks of the MediaRecorder, first to run first
    microtasks,         \* queued continuations of processVideo
    dubbedVideoUrl,     \* the dubbedVideoUrl state of the hook
    endedWhileAwaitingPlay  \* playback reached its end before recorder.start() ran

chunkerVars == <<segments, gapThreshold, chunks, rechunked, ordered, validation>>
codecVars == <<buffer, wav, decoded>>
mixerVars == <<clips, totalDuration, placed, limited, output>>
processVars ==
    <<allDialogueSegments, speakerProfiles, videoDuration, translationResponse,
      translatedSegments, segmentIndex, ttsRequests, ttsResults, ttsLogs,
      audioGeneratedSuccessfully, mainChannelData, processingState, error>>
optimizerVars == <<batchSegments, groupedSegments, batchResult, contextCalls>>
appVars ==
    <<apiKey, videoFile, targetLang, processVideoApiKey, renderedView, lastAlert>>
recorderVars ==
    <<playback, playPromise, recorderState, recordedChunks, recordingPromise,
      mediaTasks, recorderTasks, microtasks, dubbedVideoUrl,
      endedWhileAwaitingPlay>>
vars ==
    <<stage, chunkerVars, codecVars, mixerVars, processVars, optimizerVars,
      appVars, recorderVars>>

(***************************************************************************)
(* Each specification runs one subsystem; the variables of the others keep *)
(* these values.                                                           *)
(***************************************************************************)
ChunkerIdle ==
    /\ segments = <<>>
    /\ gapThreshold = 0
    /\ chunks = <<>>
    /\ rechunked = <<>>
    /\ ordered = <<>>
    /\ validation = [value |-> TRUE, warnings |-> <<>>]

CodecIdle ==
    /\ buffer = [numberOfChannels |-> 1, sampleRate |-> 0, channelData |-> <<>>]
    /\ wav = <<>>
    /\ decoded = [threw |-> FALSE, channelData |-> <<>>]

MixerIdle ==
    /\ clips = <<>>
    /\ totalDuration = 0
    /\ placed = <<>>
    /\ limited = <<>>
    /\ output = <<>>

ProcessIdle ==
    /\ allDialogueSegments = <<>>
    /\ speakerProfiles = <<>>
    /\ videoDuration = 0
    /\ translationResponse = <<>>
    /\ translatedSegments = <<>>
    /\ segmentIndex = 0
    /\ ttsRequests = <<>>
    /\ ttsResults = <<>>
    /\ ttsLogs = <<>>
    /\ audioGeneratedSuccessfully = FALSE
    /\ mainChannelData = <<>>
    /\ processingState = "idle"
    /\ error = "null"

OptimizerIdle ==
    /\ batchSegments = <<>>
    /\ groupedSegments = <<>>
    /\ batchResult = <<>>
    /\ contextCalls = <<>>

AppIdle ==
    /\ apiKey = ""
    /\ videoFile = "null"
    /\ targetLang = "es"
    /\ processVideoApiKey = ""
    /\ renderedView = "upload"
    /\ lastAlert = "none"

RecorderIdle ==
    /\ playback = "paused"
    /\ playPromise = "pending"
    /\ recorderState = "inactive"
    /\ recordedChunks = <<>>
    /\ recordingPromise = "pending"
    /\ mediaTasks = <<>>
    /\ recorderTasks = <<>>
    /\ microtasks = <<>>
    /\ dubbedVideoUrl = ""
    /\ endedWhileAwaitingPlay = FALSE

(***************************************************************************)
(* Bounds of the model.                                                    *)
(***************************************************************************)
MaxSegs == 3        \* at most this many dialogue segments in one call
MaxTime == 3        \* segment times range over 0..MaxTime
MaxChunks == 3      \* at most this many chunks given to optimizeChunkOrder
MaxFrames == 2      \* at most this many frames in an encoded AudioBuffer
Near == 2           \* sample values are taken this close to 0, +-1/2 and +-1
MaxClips == 2       \* at most this many clips in one call of mixAudioBuffers
MaxTicks == 5       \* clip start times and the total duration, in half samples

(***************************************************************************)
(* Small helpers.                                                          *)
(***************************************************************************)
Max(a, b) == IF a >= b THEN a ELSE b
Min(a, b) == IF a <= b THEN a ELSE b
Abs(a) == IF a < 0 THEN -a ELSE a

SeqsUpTo(S, n) == UNION {[1..k -> S] : k \in 0..n}

RECURSIVE Concat(_)
Concat(ss) ==
    IF ss = <<>> THEN <<>> ELSE Head(ss) \o Concat(Tail(ss))

(***************************************************************************)
(*                       VideoChunker.ts                                   *)
(*                                                                         *)
(* Times are integers in units of half a second, so that the default       *)
(* gapThreshold of 0.5 s is the integer 1.  A DialogueSegment is the       *)
(* record [speakerId, startTime, endTime]; its transcription is never read *)
(* by the chunker and is left out.                                         *)
(***************************************************************************)
Speakers == {"A", "B"}

DialogueSegment ==
    {[speakerId |-> sp, startTime |-> s, endTime |-> e] :
        sp \in Speakers, s \in 0..MaxTime, e \in 0..MaxTime}

Seg(sp, s, e) == [speakerId |-> sp, startTime |-> s, endTime |-> e]

\* endTime > startTime (types.ts, the transcription schema)
ValidSegments == {s \in DialogueSegment : s.endTime > s.startTime}

ChunkTypes == {"single-speaker", "multi-speaker", "overlap"}

\* [...segments].sort((a, b) => a.startTime - b.startTime): Array.prototype.sort
\* is stable, so a segment goes after every segment with startTime <= its own.
RECURSIVE InsertByStartTimeUnstable(_, _)
InsertByStartTimeUnstable(sorted, s) ==
    IF sorted = <<>> THEN <<s>>
    ELSE IF Head(sorted).startTime < s.startTime
         THEN <<Head(sorted)>> \o InsertByStartTimeUnstable(Tail(sorted), s)
         ELSE <<s>> \o sorted

RECURSIVE InsertByStartTime(_, _)
InsertByStartTime(sorted, s) ==
    IF sorted = <<>> THEN <<s>>
    ELSE IF Head(sorted).startTime - s.startTime <= 0
         THEN <<Head(sorted)>> \o InsertByStartTime(Tail(sorted), s)
         ELSE <<s>> \o sorted

RECURSIVE SortByStartTime(_)
SortByStartTime(segs) ==
    IF segs = <<>> THEN <<>>
    ELSE InsertByStartTime(SortByStartTime(SubSeq(segs, 1, Len(segs) - 1)),
                           segs[Len(segs)])

\* [...new Set(segments.map(s => s.speakerId))]: distinct ids, first occurrence first
RECURSIVE DistinctSpeakers(_)
DistinctSpeakers(segs) ==
    IF segs = <<>> THEN <<>>
    ELSE LET front == DistinctSpeakers(SubSeq(segs, 1, Len(segs) - 1))
             id == segs[Len(segs)].speakerId
         IN IF \E k \in 1..Len(front) : front[k] = id THEN front
            ELSE Append(front, id)

\* Math.max(...segments.map(s => s.endTime))
RECURSIVE MaxEndTime(_)
MaxEndTime(segs) ==
    IF Len(segs) = 1 THEN segs[1].endTime
    ELSE Max(segs[1].endTime, MaxEndTime(Tail(segs)))

chunkTypeOf(speakers, hasOverlap) ==
    IF hasOverlap THEN "overlap"
    ELSE IF Len(speakers) > 1 THEN "multi-speaker"
    ELSE "single-speaker"

createChunk(segs, startTime, hasOverlap) ==
    LET speakers == DistinctSpeakers(segs)
    IN [startTime |-> startTime,
        endTime   |-> MaxEndTime(segs),
        segments  |-> segs,
        chunkType |-> chunkTypeOf(speakers, hasOverlap),
        speakers  |-> speakers]

\* const isOverlap = prevSegment && segment.startTime < prevSegment.endTime
isOverlap(segment, prevSegment) ==
    segment.startTime < prevSegment.endTime

\* const hasGap = prevSegment && segment.startTime - prevSegment.endTime > gapThreshold
hasGapInclusive(segment, prevSegment, gap) ==
    segment.startTime - prevSegment.endTime >= gap

hasGap(segment, prevSegment, gap) ==
    segment.startTime - prevSegment.endTime > gap

\* const speakerChanged = currentChunk.length > 0 &&
\*     segment.speakerId !== currentChunk[currentChunk.length - 1].speakerId
speakerChanged(segment, currentChunk) ==
    /\ Len(currentChunk) > 0
    /\ segment.speakerId # currentChunk[Len(currentChunk)].speakerId

\* The state of the loop of chunkVideo before its first iteration.
chunkLoopInit(sorted) ==
    [chunks           |-> <<>>,
     currentChunk     |-> <<>>,
     currentStartTime |-> sorted[1].startTime,
     currentSpeakers  |-> {},
     hasOverlap       |-> FALSE]

\* One iteration of the loop of chunkVideo, for sorted[i] (1-based).
chunkLoopBody(st, sorted, i, gap) ==
    LET segment == sorted[i]
        hasPrev == i > 1
        overlap == hasPrev /\ isOverlap(segment, sorted[i - 1])
        gapped  == hasPrev /\ hasGap(segment, sorted[i - 1], gap)
        shouldNewChunk ==
            \/ (speakerChanged(segment, st.currentChunk) /\ ~overlap)
            \/ gapped
            \/ (overlap /\ ~st.hasOverlap)
    IN IF shouldNewChunk /\ Len(st.currentChunk) > 0
       THEN [chunks           |-> Append(st.chunks,
                                     createChunk(st.currentChunk,
                                                 st.currentStartTime,
                                                 st.hasOverlap)),
             currentChunk     |-> <<segment>>,
             currentStartTime |-> segment.startTime,
             currentSpeakers  |-> {segment.speakerId},
             hasOverlap       |-> FALSE]
       ELSE [chunks           |-> st.chunks,
             currentChunk     |-> Append(st.currentChunk, segment),
             currentStartTime |-> st.currentStartTime,
             currentSpeakers  |-> st.currentSpeakers \cup {segment.speakerId},
             hasOverlap       |-> (st.hasOverlap \/ overlap)]

RECURSIVE chunkLoop(_, _, _)
chunkLoop(sorted, n, gap) ==
    IF n = 0 THEN chunkLoopInit(sorted)
    ELSE chunkLoopBody(chunkLoop(sorted, n - 1, gap), sorted, n, gap)

\* chunkVideo without its "Add final chunk" step
chunkVideoWithoutFinalChunk(segs, gap) ==
    IF Len(segs) = 0 THEN <<>>
    ELSE chunkLoop(SortByStartTime(segs), Len(segs), gap).chunks

chunkVideo(segs, gap) ==
    IF Len(segs) = 0 THEN <<>>
    ELSE LET sorted == SortByStartTime(segs)
             st == chunkLoop(sorted, Len(sorted), gap)
         IN IF Len(st.currentChunk) > 0
            THEN Append(st.chunks,
                        createChunk(st.currentChunk, st.currentStartTime,
                                    st.hasOverlap))
            ELSE st.chunks

\* chunks.filter(c => c.chunkType === type)
RECURSIVE FilterByType(_, _)
FilterByType(chs, type) ==
    IF chs = <<>> THEN <<>>
    ELSE IF Head(chs).chunkType = type
         THEN <<Head(chs)>> \o FilterByType(Tail(chs), type)
         ELSE FilterByType(Tail(chs), type)

optimizeChunkOrderAppending(chs) ==
    FilterByType(chs, "single-speaker")
        \o FilterByType(chs, "overlap")
        \o FilterByType(chs, "multi-speaker")

optimizeChunkOrder(chs) ==
    FilterByType(chs, "single-speaker")
        \o FilterByType(chs, "multi-speaker")
        \o FilterByType(chs, "overlap")

\* The segments of a chunk sequence, in chunk order.
SegmentsOf(chs) == Concat([k \in 1..Len(chs) |-> chs[k].segments])

(***************************************************************************)
(* Inputs of the chunker.  The two examples of the design document are     *)
(* inputs besides the bounded enumeration; their times are in half         *)
(* seconds like every other time.                                          *)
(***************************************************************************)
HalfSecond == 1

\* [{A,0,2},{A,2,4},{B,5,7}] (seconds)
ClassificationExample ==
    <<Seg("A", 0, 4), Seg("A", 4, 8), Seg("B", 10, 14)>>

\* [{A,0,3},{B,2,4}] (seconds)
OverlapExample == <<Seg("A", 0, 6), Seg("B", 4, 8)>>

GapThresholds == {0, HalfSecond}

\* Speaker ids are only compared for equality, so the first segment is taken
\* to be speaker A's.
SegmentInputs ==
    {s \in SeqsUpTo(ValidSegments, MaxSegs) : s = <<>> \/ s[1].speakerId = "A"}
        \cup {ClassificationExample, OverlapExample}

\* Chunk lists for optimizeChunkOrder alone: any chunkType, in any order.
ArbitraryChunk(type, t) ==
    [startTime |-> t, endTime |-> t + 1,
     segments  |-> <<Seg("A", t, t + 1)>>,
     chunkType |-> type,
     speakers  |-> <<"A">>]

ChunkInputs ==
    SeqsUpTo({ArbitraryChunk(ty, t) : ty \in ChunkTypes, t \in 0..1}, MaxChunks)

(***************************************************************************)
(* Actions of the chunker.                                                 *)
(***************************************************************************)
InitChunker ==
    /\ stage = "input"
    /\ segments \in SegmentInputs
    /\ gapThreshold \in GapThresholds
    /\ chunks = <<>>
    /\ rechunked = <<>>
    /\ ordered = <<>>
    /\ validation = [value |-> TRUE, warnings |-> <<>>]
    /\ CodecIdle
    /\ MixerIdle
    /\ ProcessIdle
    /\ OptimizerIdle
    /\ AppIdle
    /\ RecorderIdle

InitOrder ==
    /\ stage = "chunked"
    /\ segments = <<>>
    /\ gapThreshold = HalfSecond
    /\ chunks \in ChunkInputs
    /\ rechunked = <<>>
    /\ ordered = <<>>
    /\ validation = [value |-> TRUE, warnings |-> <<>>]
    /\ CodecIdle
    /\ MixerIdle
    /\ ProcessIdle
    /\ OptimizerIdle
    /\ AppIdle
    /\ RecorderIdle

ChunkVideo ==
    /\ stage = "input"
    /\ chunks' = chunkVideo(segments, gapThreshold)
    /\ stage' = "chunked"
    /\ UNCHANGED <<segments, gapThreshold, rechunked, ordered, validation,
                   codecVars, mixerVars,
                   processVars, optimizerVars, appVars, recorderVars>>

\* chunkVideo on the segments of its own output
Rechunk ==
    /\ stage = "chunked"
    /\ rechunked' = chunkVideo(SegmentsOf(chunks), gapThreshold)
    /\ stage' = "rechunked"
    /\ UNCHANGED <<segments, gapThreshold, chunks, ordered, validation,
                   codecVars, mixerVars,
                   processVars, optimizerVars, appVars, recorderVars>>

OptimizeChunkOrder ==
    /\ stage = "chunked"
    /\ ordered' = optimizeChunkOrder(chunks)
    /\ stage' = "ordered"
    /\ UNCHANGED <<segments, gapThreshold, chunks, rechunked, validation,
                   codecVars, mixerVars,
                   processVars, optimizerVars, appVars, recorderVars>>

NextChunker == ChunkVideo \/ Rechunk

SpecChunker == InitChunker /\ [][NextChunker]_vars

SpecOrder == InitOrder /\ [][OptimizeChunkOrder]_vars

(***************************************************************************)
(* Properties of the chunker.                                              *)
(***************************************************************************)
\* The input segments in startTime order, ties in input order.
Sorted == SortByStartTime(segments)

\* The index of the chunk holding the i-th segment, counting the segments of
\* the chunks in chunk order.
RECURSIVE ChunkIndex(_, _)
ChunkIndex(chs, i) ==
    IF i <= Len(Head(chs).segments) THEN 1
    ELSE 1 + ChunkIndex(Tail(chs), i - Len(Head(chs).segments))

\* The position, counted as for ChunkIndex, of the first segment of chunk k.
FirstOfChunk(chs, k) ==
    1 + Len(SegmentsOf(SubSeq(chs, 1, k - 1)))

\* C2: a segment that starts before the preceding one (in startTime order)
\* ends is put in the same chunk as it, a chunk of type 'overlap' that lists
\* both speakers and spans from its first startTime to its maximum endTime;
\* [{A,0,3},{B,2,4}] gives the single chunk {overlap, {A,B}, 0-4}.
C2_OverlapSharesChunk ==
    stage = "chunked" =>
        /\ \A i \in 2..Len(Sorted) :
              Sorted[i].startTime < Sorted[i - 1].endTime =>
                  LET k == ChunkIndex(chunks, i)
                  IN /\ ChunkIndex(chunks, i - 1) = k
                     /\ chunks[k].chunkType = "overlap"
                     /\ \E a, b \in 1..Len(chunks[k].speakers) :
                           /\ chunks[k].speakers[a] = Sorted[i - 1].speakerId
                           /\ chunks[k].speakers[b] = Sorted[i].speakerId
                     /\ chunks[k].startTime <= Sorted[i - 1].startTime
                     /\ chunks[k].endTime >= Max(Sorted[i - 1].endTime,
                                                 Sorted[i].endTime)
        /\ segments = OverlapExample =>
              chunks = << [startTime |-> 0, endTime |-> 8,
                           segments  |-> OverlapExample,
                           chunkType |-> "overlap",
                           speakers  |-> <<"A", "B">>] >>

\* C3: consecutive chunks returned by chunkVideo do not overlap in time:
\* chunks[i+1].startTime >= chunks[i].endTime.
C3_ChunksDoNotOverlap ==
    stage = "chunked" =>
        \A i \in 1..(Len(chunks) - 1) :
            chunks[i + 1].startTime >= chunks[i].endTime

\* C4: two segments adjacent in startTime order, the later not starting
\* before the earlier ends, share a chunk exactly when they have the same
\* speakerId and are at most gapThreshold apart; otherwise the later one is
\* the first segment of a new chunk.  [{A,0,2},{A,2,4},{B,5,7}] with
\* gapThreshold 0.5 gives single-speaker A 0-4 and single-speaker B 5-7.
C4_SplitOnSpeakerOrGap ==
    stage = "chunked" =>
        /\ \A i \in 2..Len(Sorted) :
              LET earlier == Sorted[i - 1]
                  later == Sorted[i]
                  together == /\ later.speakerId = earlier.speakerId
                              /\ later.startTime - earlier.endTime <= gapThreshold
              IN later.startTime >= earlier.endTime =>
                    /\ (ChunkIndex(chunks, i) = ChunkIndex(chunks, i - 1)) <=> together
                    /\ ~together =>
                          /\ FirstOfChunk(chunks, ChunkIndex(chunks, i)) = i
                          /\ chunks[ChunkIndex(chunks, i)].startTime = later.startTime
        /\ (segments = ClassificationExample /\ gapThreshold = HalfSecond) =>
              chunks = << [startTime |-> 0, endTime |-> 8,
                           segments  |-> <<Seg("A", 0, 4), Seg("A", 4, 8)>>,
                           chunkType |-> "single-speaker",
                           speakers  |-> <<"A">>],
                          [startTime |-> 10, endTime |-> 14,
                           segments  |-> <<Seg("B", 10, 14)>>,
                           chunkType |-> "single-speaker",
                           speakers  |-> <<"B">>] >>

C4_Witness ==
    /\ stage = "chunked"
    /\ segments = ClassificationExample
    /\ gapThreshold = HalfSecond
    /\ Len(chunks) = 2

\* C5: feeding the segments of the returned chunks, in chunk order, back
\* into chunkVideo with the same gapThreshold gives chunks with the same
\* boundaries and the same members.
C5_RechunkIsIdentity ==
    stage = "rechunked" =>
        /\ Len(rechunked) = Len(chunks)
        /\ \A k \in 1..Len(chunks) :
              /\ rechunked[k].startTime = chunks[k].startTime
              /\ rechunked[k].endTime = chunks[k].endTime
              /\ rechunked[k].segments = chunks[k].segments

C5_Witness ==
    /\ stage = "rechunked"
    /\ Len(rechunked) >= 2
    /\ \E i, j \in 1..Len(segments) :
          /\ i < j
          /\ segments[i].startTime = segments[j].startTime
          /\ segments[i] # segments[j]

TypeRank(type) ==
    CASE type = "single-speaker" -> 1
      [] type = "multi-speaker" -> 2
      [] type = "overlap" -> 3

\* C6: the output of optimizeChunkOrder is a permutation of its input in
\* which single-speaker chunks come first, then multi-speaker, then overlap,
\* and chunks of one chunkType keep their input order.
C6_StablePartition ==
    stage = "ordered" =>
        /\ Len(ordered) = Len(chunks)
        /\ \A a, b \in 1..Len(ordered) :
              a < b => TypeRank(ordered[a].chunkType) <= TypeRank(ordered[b].chunkType)
        /\ \E p \in [1..Len(chunks) -> 1..Len(chunks)] :
              /\ \A i, j \in 1..Len(chunks) : i # j => p[i] # p[j]
              /\ \A i \in 1..Len(chunks) : ordered[p[i]] = chunks[i]
              /\ \A i, j \in 1..Len(chunks) :
                    (i < j /\ chunks[i].chunkType = chunks[j].chunkType)
                        => p[i] < p[j]

C6_Witness ==
    /\ stage = "ordered"
    /\ ordered # chunks
    /\ \E i, j \in 1..Len(chunks) :
          /\ i < j
          /\ chunks[i].chunkType = chunks[j].chunkType
          /\ chunks[i] # chunks[j]
    /\ \E i \in 1..Len(chunks) : chunks[i].chunkType = "overlap"

\* C18: for segments s1, s2, s3 consecutive in startTime order, s2 starting
\* before s1 ends and s3 before s2 ends, s2 and s3 are in the same chunk: the
\* chunk an overlapping segment opened is extended by further overlapping
\* segments.
C18_OverlapRunSharesChunk ==
    stage = "chunked" =>
        \A i \in 3..Len(Sorted) :
            (/\ Sorted[i - 1].startTime < Sorted[i - 2].endTime
             /\ Sorted[i].startTime < Sorted[i - 1].endTime)
                => ChunkIndex(chunks, i) = ChunkIndex(chunks, i - 1)

\* out is the sequence inp rearranged by startTime, ties in the order of inp:
\* some one-to-one placing p of the places of out on the places of inp takes
\* later places of out to later start times, or to later places of inp when
\* the start times are the same.
IsStablySorted(out, inp) ==
    /\ Len(out) = Len(inp)
    /\ \E p \in [1..Len(inp) -> 1..Len(inp)] :
          /\ \A i \in 1..Len(inp) : out[i] = inp[p[i]]
          /\ \A i, j \in 1..Len(inp) :
                i < j =>
                    \/ inp[p[i]].startTime < inp[p[j]].startTime
                    \/ /\ inp[p[i]].startTime = inp[p[j]].startTime
                       /\ p[i] < p[j]

\* C22: the segment lists of the chunks chunkVideo returns, put one after
\* another in chunk order, are the input segments sorted by startTime with
\* ties in input order (so no segment is dropped or duplicated), every chunk
\* has at least one segment and starts at the startTime of its first
\* segment, and no segments give no chunks.
C22_ChunksConserveSegments ==
    stage = "chunked" =>
        /\ IsStablySorted(SegmentsOf(chunks), segments)
        /\ \A k \in 1..Len(chunks) :
              /\ Len(chunks[k].segments) > 0
              /\ chunks[k].startTime = chunks[k].segments[1].startTime
        /\ segments = <<>> => chunks = <<>>

C22_Witness ==
    /\ stage = "chunked"
    /\ Len(segments) = 3
    /\ Len(chunks) = 2
    /\ segments # SegmentsOf(chunks)
    /\ \E i, j \in 1..Len(segments) :
          i < j /\ segments[i].startTime = segments[j].startTime

(***************************************************************************)
(*                 VideoChunker.ts: validateChunks                         *)
(*                                                                         *)
(* Here times are integers in units of a tenth of a second, so that the    *)
(* tolerance of 0.1 s is the integer 1 and the large gap of 1.0 s is 10.   *)
(* The returned record holds the boolean validateChunks returns and the    *)
(* gaps it has called console.warn for.                                    *)
(***************************************************************************)
tolerance == 1      \* const tolerance = 0.1
largeGap == 10      \* if (gap > 1.0)
MaxValidated == 2   \* at most this many chunks given to validateChunks

\* segment.startTime < chunk.startTime || segment.endTime > chunk.endTime
isOutsideBoundsExactly(segment, chunk) ==
    \/ segment.startTime < chunk.startTime
    \/ segment.endTime > chunk.endTime

\* segment.startTime < chunk.startTime - tolerance ||
\* segment.endTime > chunk.endTime + tolerance
isOutsideBounds(segment, chunk) ==
    \/ segment.startTime < chunk.startTime - tolerance
    \/ segment.endTime > chunk.endTime + tolerance

\* The loop of validateChunks from chunk i (from 1) on.
RECURSIVE validateFrom(_, _, _)
validateFrom(chs, i, warnings) ==
    IF i > Len(chs) THEN [value |-> TRUE, warnings |-> warnings]
    ELSE IF \E j \in 1..Len(chs[i].segments) :
                isOutsideBounds(chs[i].segments[j], chs[i])
         THEN [value |-> FALSE, warnings |-> warnings]
         ELSE LET gap == IF i < Len(chs)
                         THEN chs[i + 1].startTime - chs[i].endTime
                         ELSE 0
              IN validateFrom(chs, i + 1,
                              IF i < Len(chs) /\ gap > largeGap
                              THEN Append(warnings, gap)
                              ELSE warnings)

validateChunks(chs) == validateFrom(chs, 1, <<>>)

\* Segments for chunkVideo with times in tenths of a second.
TenthTimes == {0, 5, 20, 30}

TenthSegments ==
    {Seg(sp, a, b) : sp \in Speakers, a \in TenthTimes, b \in TenthTimes}

ValidatedSegmentInputs ==
    {s \in SeqsUpTo({g \in TenthSegments : g.endTime > g.startTime}, MaxSegs) :
        s = <<>> \/ s[1].speakerId = "A"}

\* Chunks for validateChunks alone: one segment that starts up to 0.2 s
\* before its chunk or ends up to 0.2 s after it; chunks 1.0 s and 1.1 s
\* apart.
BoundsChunk(t, before, after) ==
    [startTime |-> t, endTime |-> t + 10,
     segments  |-> <<Seg("A", t - before, t + 10 + after)>>,
     chunkType |-> "single-speaker",
     speakers  |-> <<"A">>]

ValidatedChunkInputs ==
    SeqsUpTo({BoundsChunk(t, o[1], o[2]) :
                 t \in {10, 30, 31},
                 o \in {<<0, 0>>, <<1, 0>>, <<2, 0>>, <<0, 1>>, <<0, 2>>}},
             MaxValidated)

InitValidate ==
    /\ \/ /\ stage = "input"
          /\ segments \in ValidatedSegmentInputs
          /\ chunks = <<>>
       \/ /\ stage = "chunked"
          /\ segments = <<>>
          /\ chunks \in ValidatedChunkInputs
    /\ gapThreshold = 5
    /\ rechunked = <<>>
    /\ ordered = <<>>
    /\ validation = [value |-> TRUE, warnings |-> <<>>]
    /\ CodecIdle
    /\ MixerIdle
    /\ ProcessIdle
    /\ OptimizerIdle
    /\ AppIdle
    /\ RecorderIdle

ValidateChunks ==
    /\ stage = "chunked"
    /\ validation' = validateChunks(chunks)
    /\ stage' = "validated"
    /\ UNCHANGED <<segments, gapThreshold, chunks, rechunked, ordered,
                   codecVars, mixerVars, processVars, optimizerVars, appVars, recorderVars>>

NextValidate == ChunkVideo \/ ValidateChunks

SpecValidate == InitValidate /\ [][NextValidate]_vars

\* C17: validateChunks returns false exactly when some segment of some chunk
\* has startTime < chunk.startTime - 0.1 or endTime > chunk.endTime + 0.1,
\* whatever the gaps between the chunks, which are warned about when larger
\* than 1.0 s; it returns true on every output of chunkVideo.
C17_ValidatesBoundsOnly ==
    stage = "validated" =>
        /\ validation.value =
              ~(\E k \in 1..Len(chunks) : \E j \in 1..Len(chunks[k].segments) :
                    \/ chunks[k].segments[j].startTime < chunks[k].startTime - 1
                    \/ chunks[k].segments[j].endTime > chunks[k].endTime + 1)
        /\ \A w \in 1..Len(validation.warnings) : validation.warnings[w] > 10
        /\ validation.value =>
              Len(validation.warnings) =
                  Cardinality({k \in 1..(Len(chunks) - 1) :
                      chunks[k + 1].startTime - chunks[k].endTime > 10})
        /\ chunks = chunkVideo(segments, gapThreshold) => validation.value

\* Chunks 1.1 s apart whose segments reach 0.1 s outside them are valid, with
\* a warning.
C17_Witness ==
    /\ stage = "validated"
    /\ chunks = <<BoundsChunk(10, 1, 0), BoundsChunk(31, 0, 1)>>
    /\ validation = [value |-> TRUE, warnings |-> <<11>>]

(***************************************************************************)
(*        useVideoProcessor.ts: the PCM / WAV codec                        *)
(*                                                                         *)
(* A sample of an AudioBuffer is a 32-bit float.  The model writes the     *)
(* amplitude n / SampleDen as the integer n; SampleDen is 2^16, so every   *)
(* modelled amplitude is exactly a float and lies between the values that  *)
(* 16-bit PCM can hold.  A decoded sample is the 16-bit integer q, for the *)
(* amplitude q / 32768.  A byte is an integer in 0..255.                   *)
(***************************************************************************)
format == 1             \* const format = 1
bitDepth == 16          \* const bitDepth = 16
EncodeScale == 32767    \* 0x7FFF
DecodeScale == 32768    \* sample / 32768.0
HeaderLength == 44      \* const bufferLength = 44 + dataLength
RiffOverhead == 36      \* view.setUint32(offset, 36 + dataLength, true)
FmtChunkSize == 16      \* view.setUint32(offset, 16, true)

SampleDen == 2 * DecodeScale

\* The quotient of a by b > 0 with the fraction dropped (toward zero).
TruncDiv(a, b) == IF a >= 0 THEN a \div b ELSE -((-a) \div b)

\* The quotient of a by an even b > 0 rounded to the nearest integer, halves up.
RoundDiv(a, b) == (a + b \div 2) \div b

\* Math.max(-1, Math.min(1, data[i]))
Clamp(n) == Max(-SampleDen, Min(SampleDen, n))

\* The conversion of a stored number to Int16: the fraction is dropped and the
\* integer is taken modulo 2^16 into -32768..32767.
ToInt16Rounding(num, den) ==
    ((RoundDiv(num, den) + 32768) % 65536) - 32768

ToInt16(num, den) ==
    ((TruncDiv(num, den) + 32768) % 65536) - 32768

\* result[i] = Math.max(-1, Math.min(1, data[i])) * 0x7FFF
EncodeSample(n) == ToInt16(Clamp(n) * EncodeScale, SampleDen)

\* view.setUint8(offset + i, string.charCodeAt(i))
RIFF == <<82, 73, 70, 70>>
WAVE == <<87, 65, 86, 69>>
FMT  == <<102, 109, 116, 32>>
DATA == <<100, 97, 116, 97>>

\* view.setUint16(offset, v, true), view.setUint32(offset, v, true)
setUint16(v) == <<v % 256, (v \div 256) % 256>>
setUint32(v) ==
    <<v % 256, (v \div 256) % 256, (v \div 65536) % 256, (v \div 16777216) % 256>>

\* view.setInt16(offset, v, true): two's complement, low byte first
setInt16(v) == setUint16(v % 65536)

\* view.getInt16(byteOffset, true), byteOffset counted from 0
getInt16BigEndian(bytes, byteOffset) ==
    LET u == 256 * bytes[byteOffset + 1] + bytes[byteOffset + 2]
    IN IF u >= 32768 THEN u - 65536 ELSE u

getInt16(bytes, byteOffset) ==
    LET u == bytes[byteOffset + 1] + 256 * bytes[byteOffset + 2]
    IN IF u >= 32768 THEN u - 65536 ELSE u

getUint16(bytes, byteOffset) ==
    bytes[byteOffset + 1] + 256 * bytes[byteOffset + 2]

getUint32(bytes, byteOffset) ==
    bytes[byteOffset + 1] + 256 * bytes[byteOffset + 2]
        + 65536 * bytes[byteOffset + 3] + 16777216 * bytes[byteOffset + 4]

\* const result = new Int16Array(data.length), filled from channel 0 only
\* (buffer.copyFromChannel(data, 0))
EncodeSamples(buf) ==
    [i \in 1..Len(buf.channelData) |-> EncodeSample(buf.channelData[i])]

audioBufferToWavBlob(buf) ==
    LET numChannels == buf.numberOfChannels
        sampleRate == buf.sampleRate
        result == EncodeSamples(buf)
        dataLength == Len(result) * (bitDepth \div 8)
    IN RIFF \o setUint32(RiffOverhead + dataLength) \o WAVE
        \o FMT \o setUint32(FmtChunkSize)
        \o setUint16(format)
        \o setUint16(numChannels)
        \o setUint32(sampleRate)
        \o setUint32(sampleRate * numChannels * (bitDepth \div 8))
        \o setUint16(numChannels * (bitDepth \div 8))
        \o setUint16(bitDepth)
        \o DATA \o setUint32(dataLength)
        \o Concat([i \in 1..Len(result) |-> setInt16(result[i])])

\* manualDecodeAudioData(data, ctx, sampleRate, numChannels).  frameCount is
\* data.byteLength / 2 / numChannels; when that is not a whole number the
\* loop reads past the end of the DataView and getInt16 throws a RangeError.
manualDecodeAudioData(data, numChannels) ==
    LET frameBytes == 2 * numChannels
        whole == Len(data) \div frameBytes
    IN IF Len(data) = 0
       THEN [threw |-> FALSE, channelData |-> [c \in 1..numChannels |-> <<>>]]
       ELSE IF Len(data) % frameBytes # 0
       THEN [threw |-> TRUE, channelData |-> <<>>]
       ELSE [threw |-> FALSE,
             channelData |->
                [c \in 1..numChannels |->
                    [i \in 1..whole |->
                        getInt16(data, ((i - 1) * numChannels + (c - 1)) * 2)]]]

(***************************************************************************)
(* Inputs and actions of the codec.                                        *)
(***************************************************************************)
\* Amplitudes next to 0, +-1/2 and +-1, and the amplitudes +-3/2.
SampleCenters == {-SampleDen, -(SampleDen \div 2), 0, SampleDen \div 2, SampleDen}

SampleValues ==
    UNION {(c - Near)..(c + Near) : c \in SampleCenters}
        \cup {-(3 * SampleDen) \div 2, (3 * SampleDen) \div 2}

\* 44100: the extraction context of processVideo; 24000: its dubbing context
SampleRates == {44100, 24000}

\* An AudioBuffer holds at least one frame.
AudioBuffers ==
    {[numberOfChannels |-> ch, sampleRate |-> sr, channelData |-> d] :
        ch \in {1, 2}, sr \in SampleRates,
        d \in SeqsUpTo(SampleValues, MaxFrames) \ {<<>>}}

InitCodec ==
    /\ stage = "buffer"
    /\ ChunkerIdle
    /\ MixerIdle
    /\ ProcessIdle
    /\ OptimizerIdle
    /\ AppIdle
    /\ RecorderIdle
    /\ buffer \in AudioBuffers
    /\ wav = <<>>
    /\ decoded = [threw |-> FALSE, channelData |-> <<>>]

EncodeWav ==
    /\ stage = "buffer"
    /\ wav' = audioBufferToWavBlob(buffer)
    /\ stage' = "encoded"
    /\ UNCHANGED <<chunkerVars, mixerVars, buffer, decoded,
                   processVars, optimizerVars, appVars, recorderVars>>

\* The sample bytes of the container, decoded as raw PCM with the channel
\* count of the buffer that was encoded.
DecodeSamples ==
    /\ stage = "encoded"
    /\ decoded' = manualDecodeAudioData(SubSeq(wav, HeaderLength + 1, Len(wav)),
                                        buffer.numberOfChannels)
    /\ stage' = "decoded"
    /\ UNCHANGED <<chunkerVars, mixerVars, buffer, wav,
                   processVars, optimizerVars, appVars, recorderVars>>

NextCodec == EncodeWav \/ DecodeSamples

SpecCodec == InitCodec /\ [][NextCodec]_vars

(***************************************************************************)
(* Properties of the codec.                                                *)
(***************************************************************************)
\* The 16-bit integer stored for frame i (from 1) in the container.
StoredSample(i) == getInt16(wav, HeaderLength + 2 * (i - 1))

\* sample clamped to [-1, 1], as a numerator over SampleDen
ClampedSample(i) ==
    LET n == buffer.channelData[i]
    IN IF n > SampleDen THEN SampleDen
       ELSE IF n < -SampleDen THEN -SampleDen
       ELSE n

InRange(buf) ==
    \A i \in 1..Len(buf.channelData) :
        /\ buf.channelData[i] >= -SampleDen
        /\ buf.channelData[i] <= SampleDen

\* |s - decode(encode(s))| for frame i, as a numerator over SampleDen
RoundTripError(i) ==
    Abs(buffer.channelData[i]
            - decoded.channelData[1][i] * (SampleDen \div DecodeScale))

\* 1/32768 as a numerator over SampleDen
OneStep == SampleDen \div DecodeScale

\* C7, as claimed: for a mono buffer with samples in [-1,1], decoding the
\* sample bytes written by audioBufferToWavBlob reproduces every sample with
\* absolute error at most 1/32768.
C7_RoundTripWithinOneStep ==
    (stage = "decoded" /\ buffer.numberOfChannels = 1 /\ InRange(buffer)) =>
        /\ ~decoded.threw
        /\ Len(decoded.channelData[1]) = Len(buffer.channelData)
        /\ \A i \in 1..Len(buffer.channelData) : RoundTripError(i) <= OneStep

\* C7, amended: for a mono buffer with samples in [-1,1], decoding the
\* sample bytes written by audioBufferToWavBlob reproduces every sample with
\* absolute error at most 2/32768.
C7_RoundTripWithinTwoSteps ==
    (stage = "decoded" /\ buffer.numberOfChannels = 1 /\ InRange(buffer)) =>
        /\ ~decoded.threw
        /\ Len(decoded.channelData[1]) = Len(buffer.channelData)
        /\ \A i \in 1..Len(buffer.channelData) : RoundTripError(i) <= 2 * OneStep

C7_Witness ==
    /\ stage = "decoded"
    /\ buffer.numberOfChannels = 1
    /\ InRange(buffer)
    /\ ~decoded.threw
    /\ \E i, j \in 1..Len(buffer.channelData) :
          /\ buffer.channelData[i] = SampleDen - 1
          /\ buffer.channelData[j] = -SampleDen
          /\ RoundTripError(i) > OneStep

\* C8, as claimed: the encoder stores round(clamp(sample,-1,1) x 32767), the
\* nearest integer to the scaled value, which lies in [-32767, 32767].
C8_StoresNearestInteger ==
    stage = "encoded" =>
        \A i \in 1..Len(buffer.channelData) :
            /\ 2 * Abs(StoredSample(i) * SampleDen - ClampedSample(i) * EncodeScale)
                   <= SampleDen
            /\ StoredSample(i) >= -EncodeScale
            /\ StoredSample(i) <= EncodeScale

\* C8, amended: the encoder stores clamp(sample,-1,1) x 32767 with its
\* fraction dropped (truncated toward zero), which lies in [-32767, 32767].
C8_StoresTruncatedInteger ==
    stage = "encoded" =>
        \A i \in 1..Len(buffer.channelData) :
            LET scaled == ClampedSample(i) * EncodeScale
                rest == Abs(scaled) - Abs(StoredSample(i)) * SampleDen
            IN /\ rest >= 0
               /\ rest < SampleDen
               /\ scaled >= 0 => StoredSample(i) >= 0
               /\ scaled <= 0 => StoredSample(i) <= 0
               /\ StoredSample(i) >= -EncodeScale
               /\ StoredSample(i) <= EncodeScale

C8_Witness ==
    /\ stage = "encoded"
    /\ \E i, j \in 1..Len(buffer.channelData) :
          /\ buffer.channelData[i] > SampleDen
          /\ StoredSample(i) = EncodeScale
          /\ buffer.channelData[j] = 2 - SampleDen
          /\ StoredSample(j) = 1 - EncodeScale

targetSampleRate == 24000   \* private targetSampleRate: number = 24000
Unit == 10 * 10 * 10
TicksPerSecond == 2 * targetSampleRate

CeilDiv(a, b) == -((-a) \div b)

\* Math.floor(totalDuration * this.targetSampleRate), totalDuration in ticks
OutputLengthFloor(duration) == (duration * targetSampleRate) \div TicksPerSecond

\* Math.ceil(totalDuration * this.targetSampleRate), totalDuration in ticks
OutputLength(duration) == CeilDiv(duration * targetSampleRate, TicksPerSecond)

\* Math.floor(startTime * this.targetSampleRate), startTime in ticks
StartSample(startTime) == (startTime * targetSampleRate) \div TicksPerSecond

\* 1 / Math.sqrt(sourceCount), kept to 1/Unit
InvSqrt ==
    [n \in 1..MaxClips |->
        CHOOSE b \in 0..Unit :
            /\ n * b * b <= Unit * Unit
            /\ Unit * Unit < n * (b + 1) * (b + 1)]

calculateNormalizedGain(sourceCount, userVolume) ==
    LET baseGain == InvSqrt[sourceCount]
    IN TruncDiv(baseGain * userVolume, Unit)

\* outputData[outputIndex] = value, replacing what is there
Overwrite(outputData, outputIndex, value) ==
    IF outputIndex < Len(outputData)
    THEN IF outputIndex >= 0
         THEN [outputData EXCEPT ![outputIndex + 1] = value]
         ELSE outputData
    ELSE outputData

\* outputData[outputIndex] += value, an index outside the buffer moved to the
\* nearest index inside it
AccumulateClamped(outputData, outputIndex, value) ==
    IF Len(outputData) = 0 THEN outputData
    ELSE LET inside == Max(0, Min(Len(outputData) - 1, outputIndex))
         IN [outputData EXCEPT ![inside + 1] = @ + value]

\* if (outputIndex < outputData.length) outputData[outputIndex] += value.
\* outputIndex counts from 0; a store at a negative index of a Float32Array
\* changes nothing.
Accumulate(outputData, outputIndex, value) ==
    IF outputIndex < Len(outputData)
    THEN IF outputIndex >= 0
         THEN [outputData EXCEPT ![outputIndex + 1] = @ + value]
         ELSE outputData
    ELSE outputData

\* for (let i = 0; i < sourceData.length; i++) { ... }: the first n iterations
RECURSIVE PlaceSamples(_, _, _, _, _)
PlaceSamples(outputData, sourceData, startSample, normalizedGain, n) ==
    IF n = 0 THEN outputData
    ELSE Accumulate(
            PlaceSamples(outputData, sourceData, startSample, normalizedGain, n - 1),
            startSample + (n - 1),
            TruncDiv(sourceData[n] * normalizedGain, Unit))

\* for (const { buffer, startTime, speakerId, volume = 1 } of buffers): the
\* first n iterations
RECURSIVE PlaceClips(_, _, _)
PlaceClips(outputData, buffers, n) ==
    IF n = 0 THEN outputData
    ELSE LET clip == buffers[n]
         IN PlaceSamples(PlaceClips(outputData, buffers, n - 1),
                         clip.samples,
                         StartSample(clip.startTime),
                         calculateNormalizedGain(Len(buffers), clip.volume),
                         Len(clip.samples))

\* timelineChannels.push({ start: startSample, end: startSample + sourceData.length })
TimelineChannels(buffers) ==
    [k \in 1..Len(buffers) |->
        [start |-> StartSample(buffers[k].startTime),
         end   |-> StartSample(buffers[k].startTime) + Len(buffers[k].samples)]]

\* The body of the loop of applySoftLimiter for one sample.
limiterThreshold == (8 * Unit) \div 10     \* const threshold = 0.8
limiterKnee == Unit \div 10                \* const knee = 0.1
limiterRatio == 12                          \* const ratio = 12

LimitSample(sample) ==
    LET absSample == Abs(sample)
        kneeStart == limiterThreshold - limiterKnee \div 2
    IN IF absSample > kneeStart
       THEN IF absSample < limiterThreshold
            THEN \* kneeAmount = (absSample - kneeStart) / knee
                 \* hardKneeGain = 1 + (ratio - 1) * kneeAmount
                 \* gain = 1 + (hardKneeGain - 1) * kneeAmount
                 \*      = 1 + (ratio - 1) * (absSample - kneeStart)^2 / knee^2
                 LET d == absSample - kneeStart
                 IN TruncDiv(sample * (limiterKnee * limiterKnee
                                          + (limiterRatio - 1) * d * d),
                             limiterKnee * limiterKnee)
            ELSE \* gain = (threshold + (absSample - threshold) / ratio) / absSample
                 \* sample * gain = sign * (threshold + (absSample - threshold) / ratio)
                 LET target == limiterThreshold * limiterRatio
                                   + (absSample - limiterThreshold)
                 IN IF sample < 0 THEN -(target \div limiterRatio)
                    ELSE target \div limiterRatio
       ELSE sample

applySoftLimiter(audioData) ==
    [i \in 1..Len(audioData) |-> LimitSample(audioData[i])]

compressThreshold == Unit \div 2    \* const threshold = 0.5
compressRatio == 4          \* const ratio = 4

\* timelineChannels.filter(ch => i >= ch.start && i <= ch.end).length, i from 0
OverlappingChannelsInclusive(timelineChannels, i) ==
    Cardinality({k \in 1..Len(timelineChannels) :
                    /\ i >= timelineChannels[k].start
                    /\ i <= timelineChannels[k].end})

\* timelineChannels.filter(ch => i >= ch.start && i < ch.end).length, i from 0
OverlappingChannels(timelineChannels, i) ==
    Cardinality({k \in 1..Len(timelineChannels) :
                    /\ i >= timelineChannels[k].start
                    /\ i < timelineChannels[k].end})

\* The body of the loop of compressOverlapRegions for the sample at index i.
CompressSample(sample, overlappingChannels) ==
    LET absSample == Abs(sample)
    IN IF overlappingChannels > 1 /\ absSample > compressThreshold
       THEN \* gain = threshold + (absSample - threshold) / ratio
            \* audioData[i] = (sample / absSample) * gain
            LET gain == (compressThreshold * compressRatio
                            + (absSample - compressThreshold)) \div compressRatio
            IN IF sample < 0 THEN -gain ELSE gain
       ELSE sample

compressOverlapRegions(audioData, timelineChannels) ==
    [i \in 1..Len(audioData) |->
        CompressSample(audioData[i],
                       OverlappingChannels(timelineChannels, i - 1))]

\* createBuffer(1, Math.ceil(totalDuration * targetSampleRate), ...); fill(0)
Silence(duration) == [i \in 1..OutputLength(duration) |-> 0]

(***************************************************************************)
(* Inputs and the action of the mixer.                                     *)
(***************************************************************************)
\* Full-scale samples of either sign, and one in the limiter's knee.
Waveforms ==
    { <<Unit>>, <<Unit, -Unit>>, <<(79 * Unit) \div 100, Unit>> }

Volumes == {Unit, 2 * Unit}

AudioClips ==
    {[samples |-> w, startTime |-> s, volume |-> v] :
        w \in Waveforms, s \in (-1)..MaxTicks, v \in Volumes}

Durations == {1, MaxTicks - 1, MaxTicks}

InitMixer ==
    /\ stage = "clips"
    /\ ChunkerIdle
    /\ CodecIdle
    /\ ProcessIdle
    /\ OptimizerIdle
    /\ AppIdle
    /\ RecorderIdle
    /\ clips \in SeqsUpTo(AudioClips, MaxClips)
    /\ totalDuration \in Durations
    /\ placed = <<>>
    /\ limited = <<>>
    /\ output = <<>>

\* mixAudioBuffers runs to completion without awaiting anything: one step.
MixAudioBuffers ==
    /\ stage = "clips"
    /\ LET outputData == PlaceClips(Silence(totalDuration), clips, Len(clips))
           afterLimiter == applySoftLimiter(outputData)
       IN /\ placed' = outputData
          /\ limited' = afterLimiter
          /\ output' = compressOverlapRegions(afterLimiter, TimelineChannels(clips))
    /\ stage' = "mixed"
    /\ UNCHANGED <<chunkerVars, codecVars, clips, totalDuration,
                   processVars, optimizerVars, appVars, recorderVars>>

SpecMixer == InitMixer /\ [][MixAudioBuffers]_vars

(***************************************************************************)
(* Properties of the mixer.                                                *)
(***************************************************************************)
\* C1: after all the steps of mixAudioBuffers every sample of the output
\* buffer has absolute value at most 1.0.
C1_OutputWithinUnit ==
    stage = "mixed" =>
        \A j \in 1..Len(output) : Abs(output[j]) <= Unit

\* floor(startTime x 24000), with startTime in ticks of 1/48000 s
FloorOfSamples ==
    [t \in (-1)..MaxTicks |->
        CHOOSE f \in (-MaxTicks - 1)..(MaxTicks + 1) :
            /\ f * 48000 <= t * 24000
            /\ t * 24000 < (f + 1) * 48000]

ExpectedStart(clip) == FloorOfSamples[clip.startTime]

\* 1/sqrt(n) to three decimals: the largest b with n * (b/1000)^2 <= 1
ExpectedBaseGain ==
    [n \in 1..MaxClips |->
        CHOOSE b \in 0..1000 :
            /\ n * b * b <= 1000000
            /\ 1000000 < n * (b + 1) * (b + 1)]

\* What clip k adds at index j (from 0) of the output buffer: its sample
\* j - start scaled by volume / sqrt(N), or nothing when it does not cover j.
ExpectedContribution(k, j) ==
    LET clip == clips[k]
        i == j - ExpectedStart(clip)
        gain == TruncDiv(ExpectedBaseGain[Len(clips)] * clip.volume, 1000)
    IN IF i >= 0 /\ i < Len(clip.samples)
       THEN TruncDiv(clip.samples[i + 1] * gain, 1000)
       ELSE 0

RECURSIVE ExpectedSum(_, _)
ExpectedSum(k, j) ==
    IF k = 0 THEN 0 ELSE ExpectedSum(k - 1, j) + ExpectedContribution(k, j)

\* ceil(totalDuration x 24000), with totalDuration in ticks of 1/48000 s
CeilOfSamples ==
    [t \in 0..MaxTicks |->
        CHOOSE n \in 0..(MaxTicks + 1) :
            /\ n * 48000 >= t * 24000
            /\ (n - 1) * 48000 < t * 24000]

ExpectedLength == CeilOfSamples[totalDuration]

\* C10: before limiting, the buffer has ceil(totalDuration x 24000) samples
\* and the sample at every index is the sum, over the clips covering that
\* index, of sample x volume / sqrt(N), N the number of clips of the call;
\* an index no clip covers holds exactly zero and samples at or past the end
\* are dropped.
C10_PlacementIsSum ==
    stage = "mixed" =>
        /\ Len(placed) = ExpectedLength
        /\ \A j \in 0..(Len(placed) - 1) :
              placed[j + 1] = ExpectedSum(Len(clips), j)

\* Two disjoint full-scale clips with volume 1 at amplitude 1/sqrt(2), zero
\* elsewhere, one of them cut off by the end of the buffer.
C10_Witness ==
    /\ stage = "mixed"
    /\ Len(clips) = 2
    /\ clips[1] = [samples |-> <<1000>>, startTime |-> 0, volume |-> 1000]
    /\ clips[2] = [samples |-> <<1000, -1000>>, startTime |-> 5, volume |-> 1000]
    /\ placed = <<707, 0, 707>>

\* Clip k has no sample at an index of the output buffer: it starts at or
\* past the end, or ends at or before index 0.
WhollyOutside(k) ==
    \/ ExpectedStart(clips[k]) >= ExpectedLength
    \/ ExpectedStart(clips[k]) + Len(clips[k].samples) <= 0

\* The sum at index j (from 0) of the contributions of the first m clips of
\* the call, clip k left out; N stays the number of clips of the call.
RECURSIVE ExpectedSumWithout(_, _, _)
ExpectedSumWithout(k, m, j) ==
    IF m = 0 THEN 0
    ELSE ExpectedSumWithout(k, m - 1, j)
            + (IF m = k THEN 0 ELSE ExpectedContribution(m, j))

\* The number of clips other than k whose sample range covers index j.
CoveredWithout(k, j) ==
    Cardinality({m \in (1..Len(clips)) \ {k} :
                    /\ j >= ExpectedStart(clips[m])
                    /\ j < ExpectedStart(clips[m]) + Len(clips[m].samples)})

\* The placement and the output of the call had clip k held no samples.
PlacedWithout(k) ==
    [j \in 1..ExpectedLength |-> ExpectedSumWithout(k, Len(clips), j - 1)]

OutputWithout(k) ==
    [j \in 1..ExpectedLength |->
        CompressSample(LimitSample(PlacedWithout(k)[j]), CoveredWithout(k, j - 1))]

\* C11, as claimed: a clip whose startTime is negative, or whose samples
\* would all fall outside the buffer, contributes nothing to any sample: the
\* placement and the output are those of the call without that clip's
\* samples.
C11_NegativeOrOutsideClipDropped ==
    stage = "mixed" =>
        \A k \in 1..Len(clips) :
            (clips[k].startTime < 0 \/ WhollyOutside(k)) =>
                /\ placed = PlacedWithout(k)
                /\ output = OutputWithout(k)

\* C11, amended: a clip all of whose samples fall outside the buffer (it
\* starts at or past the end, or ends at or before index 0) contributes
\* nothing to any sample: the placement and the output are those of the call
\* without that clip's samples.
C11_OutsideClipDropped ==
    stage = "mixed" =>
        \A k \in 1..Len(clips) :
            WhollyOutside(k) =>
                /\ placed = PlacedWithout(k)
                /\ output = OutputWithout(k)

\* A clip that ends at index 0 and a clip that starts at the end, in calls
\* whose other clip is heard.
C11_Witness ==
    /\ stage = "mixed"
    /\ Len(clips) = 2
    /\ \/ clips[1] = [samples |-> <<Unit>>, startTime |-> -1, volume |-> Unit]
       \/ /\ clips[1].startTime = MaxTicks
          /\ totalDuration = MaxTicks - 1
    /\ WhollyOutside(1)
    /\ ~WhollyOutside(2)
    /\ \E j \in 1..Len(output) : output[j] # 0

C19_LimiterNeverAmplifies ==
    stage = "mixed" =>
        /\ Len(limited) = Len(placed)
        /\ \A j \in 1..Len(placed) :
              LET x == placed[j]
                  y == limited[j]
              IN /\ Abs(y) <= Abs(x)
                 /\ (x > 0 => y > 0) /\ (x < 0 => y < 0)
                 /\ Abs(x) < 750 => y = x
                 /\ Abs(x) >= 800 =>
                       /\ 12 * Abs(y) <= 12 * 800 + (Abs(x) - 800)
                       /\ 12 * 800 + (Abs(x) - 800) < 12 * (Abs(y) + 1)

\* The number of clips whose sample range [start, end) covers index j.
Covering(j) ==
    Cardinality({k \in 1..Len(clips) :
                    /\ j >= ExpectedStart(clips[k])
                    /\ j < ExpectedStart(clips[k]) + Len(clips[k].samples)})

\* C20: compressOverlapRegions changes a sample only at an index that more
\* than one clip covers and only if its magnitude exceeds 0.5, to
\* sign x (0.5 + (|x| - 0.5) / 4) (to 1/1000, fraction dropped); every other
\* sample is exactly as the limiter left it.
C20_CompressesOverlapOnly ==
    stage = "mixed" =>
        /\ Len(output) = Len(limited)
        /\ \A j \in 0..(Len(limited) - 1) :
              LET x == limited[j + 1]
                  y == output[j + 1]
              IN IF Covering(j) > 1 /\ Abs(x) > 500
                 THEN /\ 4 * Abs(y) <= 4 * 500 + (Abs(x) - 500)
                      /\ 4 * 500 + (Abs(x) - 500) < 4 * (Abs(y) + 1)
                      /\ (x > 0 => y > 0) /\ (x < 0 => y < 0)
                 ELSE y = x

\* Two clips start together; the first sample, under both, is compressed and
\* the second, under one only, is not, though louder than 0.5.
C20_Witness ==
    /\ stage = "mixed"
    /\ clips = << [samples |-> <<Unit>>, startTime |-> 0, volume |-> Unit],
                  [samples |-> <<Unit, -Unit>>, startTime |-> 0, volume |-> Unit] >>
    /\ limited = <<851, -707>>
    /\ output = <<587, -707>>

(***************************************************************************)
(*   useVideoProcessor.ts: translation and synthesis in processVideo       *)
(*                                                                         *)
(* The part of processVideo from the translation request to the end of the *)
(* synthesis loop.  A text is the sequence of its lines, a blank line      *)
(* being "" and the empty text being <<>>.  A segment is the record        *)
(* [speakerId, startTime]: endTime is not read here and the transcription  *)
(* only goes into the prompt.  Times are in ticks, two to a sample of the  *)
(* 24000 Hz dub buffer, and a sample of the dub buffer is the 16-bit       *)
(* integer q of the decoded amplitude q / 32768.  The audio payload of a   *)
(* response is given as the bytes its base64 text stands for.              *)
(***************************************************************************)
MaxDialogue == 2    \* at most this many dialogue segments in the transcription
MaxLines == 3       \* at most this many lines in the translation response

Separator == "---"
Blank == ""

\* text.split('\n---\n') on the lines of text: a line "---" with a line before
\* it and a line after it separates two snippets, unless the newline before
\* it was used up by the preceding separator.
RECURSIVE splitFrom(_, _, _, _)
splitFrom(lines, i, current, afterSeparator) ==
    IF i > Len(lines) THEN <<current>>
    ELSE IF /\ lines[i] = Separator
            /\ i > 1
            /\ i < Len(lines)
            /\ ~afterSeparator
         THEN <<current>> \o splitFrom(lines, i + 1, <<>>, TRUE)
         ELSE splitFrom(lines, i + 1, Append(current, lines[i]), FALSE)

split(lines) == splitFrom(lines, 1, <<>>, FALSE)

\* String.prototype.trim: the blank lines at both ends are removed
RECURSIVE trim(_)
trim(text) ==
    IF text = <<>> THEN <<>>
    ELSE IF Head(text) = Blank THEN trim(Tail(text))
    ELSE IF text[Len(text)] = Blank THEN trim(SubSeq(text, 1, Len(text) - 1))
    ELSE text

\* translationResponse.text.split('\n---\n').map(t => t.trim())
translatedTextsOf(response) ==
    LET snippets == split(response)
    IN [k \in 1..Len(snippets) |-> trim(snippets[k])]

\* translatedTexts[i + 1] || "", the text of the segment after segment i
translatedTextShifted(translatedTexts, i) ==
    IF i + 1 <= Len(translatedTexts) THEN translatedTexts[i + 1] ELSE <<>>

\* translatedTexts[i] || "", i counted from 1
translatedText(translatedTexts, i) ==
    IF i <= Len(translatedTexts) THEN translatedTexts[i] ELSE <<>>

\* allDialogueSegments.forEach((segment, i) =>
\*     translatedSegments.push({ ...segment, text: translatedTexts[i] || "" }))
translateSegments(segs, translatedTexts) ==
    [i \in 1..Len(segs) |->
        [speakerId |-> segs[i].speakerId,
         startTime |-> segs[i].startTime,
         text      |-> translatedText(translatedTexts, i)]]

\* if (!segment.text.trim()) continue;
\* if (!speakerProfile || !speakerProfile.voiceName) continue;
isSynthesized(segment, profiles) ==
    /\ trim(segment.text) # <<>>
    /\ profiles[segment.speakerId] # ""

\* setTtsLogs(prev => [...prev, msg])
appendTtsLog(logs, kind, text) ==
    Append(logs, [kind |-> kind, text |-> text])

\* catch (ttsError) { }
catchTtsErrorSilently(logs, text) == logs

\* catch (ttsError) { appendTtsLog('[TTS][EXCEPTION] for segment ...') }
catchTtsError(logs, text) == appendTtsLog(logs, "EXCEPTION", text)

\* Math.ceil(duration * 24000), duration in ticks
dubLength(d) == CeilDiv(d * 24000, 48000)

\* Math.floor(segment.startTime * 24000), startTime in ticks
dubStartSample(startTime) == (startTime * 24000) \div 48000

\* if (startSample + segmentChannelData.length <= mainChannelData.length)
\*     mainChannelData.set(segmentChannelData, startSample);
placeSegment(main, data, startSample) ==
    IF startSample + Len(data) <= Len(main)
    THEN [j \in 1..Len(main) |->
            IF j - 1 >= startSample /\ j - 1 < startSample + Len(data)
            THEN data[j - startSample]
            ELSE main[j]]
    ELSE main

(***************************************************************************)
(* Inputs and actions of processVideo.                                     *)
(***************************************************************************)
\* The transcription holds at least one segment (an empty one ends
\* processVideo before the translation).
DialogueInputs ==
    {d \in SeqsUpTo({[speakerId |-> sp, startTime |-> t] :
                        sp \in Speakers, t \in {0, 2}}, MaxDialogue) :
        d # <<>>}

\* The analysis response of a speaker may lack a voiceName.
ProfileInputs == {[sp \in Speakers |-> IF sp = "A" THEN "Kore" ELSE v] :
                     v \in {"", "Puck"}}

\* A response text has at least one line.
TranslationResponses ==
    {r \in SeqsUpTo({"hola", Separator, Blank}, MaxLines) : r # <<>>}

\* What a speech-synthesis request comes back with: a rejection, a response
\* without audio data, or a response with audio data: one frame, two frames,
\* a frame and a half, or text that is not base64.
TtsThrown == [kind |-> "throws", valid |-> FALSE, bytes |-> <<>>]
TtsEmpty == [kind |-> "empty", valid |-> FALSE, bytes |-> <<>>]
TtsAudioResponses ==
    {[kind |-> "audio", valid |-> TRUE, bytes |-> b] :
        b \in {<<0, 64>>, <<0, 64, 0, 192>>, <<0, 64, 0>>}}
        \cup {[kind |-> "audio", valid |-> FALSE, bytes |-> <<>>]}

AllFailedMessage == "Audio generation failed for all dialogue segments."
TranslationFailedMessage == "translation request failed"

InitProcess ==
    /\ stage = "translating"
    /\ ChunkerIdle
    /\ CodecIdle
    /\ MixerIdle
    /\ OptimizerIdle
    /\ AppIdle
    /\ RecorderIdle
    /\ allDialogueSegments \in DialogueInputs
    /\ speakerProfiles \in ProfileInputs
    /\ videoDuration = 3
    /\ translationResponse = <<>>
    /\ translatedSegments = <<>>
    /\ segmentIndex = 0
    /\ ttsRequests = <<>>
    /\ ttsResults = <<>>
    /\ ttsLogs = <<>>
    /\ audioGeneratedSuccessfully = FALSE
    /\ mainChannelData = <<>>
    /\ processingState = "processing"
    /\ error = "null"

processInputs == <<allDialogueSegments, speakerProfiles, videoDuration>>
idleInProcess == <<chunkerVars, codecVars, mixerVars, optimizerVars, appVars, recorderVars>>

\* The translation response arrives: lines 232-242.
Translate ==
    /\ stage = "translating"
    /\ \E response \in TranslationResponses :
          /\ translationResponse' = response
          /\ translatedSegments' =
                translateSegments(allDialogueSegments, translatedTextsOf(response))
    /\ mainChannelData' = [j \in 1..dubLength(videoDuration) |-> 0]
    /\ audioGeneratedSuccessfully' = FALSE
    /\ segmentIndex' = 1
    /\ stage' = "synthesizing"
    /\ UNCHANGED <<processInputs, ttsRequests, ttsResults, ttsLogs,
                   processingState, error, idleInProcess>>

\* The translation request is rejected: the catch block of processVideo.
TranslationFails ==
    /\ stage = "translating"
    /\ error' = TranslationFailedMessage
    /\ processingState' = "error"
    /\ stage' = "failed"
    /\ UNCHANGED <<processInputs, translationResponse, translatedSegments,
                   segmentIndex, ttsRequests, ttsResults, ttsLogs,
                   audioGeneratedSuccessfully, mainChannelData, idleInProcess>>

InLoop ==
    /\ stage = "synthesizing"
    /\ segmentIndex <= Len(translatedSegments)

\* continue: the segment has no text, or its speaker no voice
SkipSegment ==
    /\ InLoop
    /\ ~isSynthesized(translatedSegments[segmentIndex], speakerProfiles)
    /\ segmentIndex' = segmentIndex + 1
    /\ UNCHANGED <<stage, processInputs, translationResponse,
                   translatedSegments, ttsRequests, ttsResults, ttsLogs, audioGeneratedSuccessfully,
                   mainChannelData, processingState, error, idleInProcess>>

\* One iteration of the loop whose request comes back with `result`.
Synthesize(result) ==
    LET segment == translatedSegments[segmentIndex]
        requested == appendTtsLog(ttsLogs, "REQUEST", segment.text)
        responded == appendTtsLog(requested, "RESPONSE", segment.text)
        pcm == manualDecodeAudioData(result.bytes, 1)
    IN /\ InLoop
       /\ isSynthesized(segment, speakerProfiles)
       /\ ttsRequests' = Append(ttsRequests, segmentIndex)
       /\ ttsResults' = Append(ttsResults, result)
       /\ segmentIndex' = segmentIndex + 1
       /\ CASE result.kind = "throws" ->
                 /\ ttsLogs' = catchTtsError(requested, segment.text)
                 /\ UNCHANGED <<audioGeneratedSuccessfully, mainChannelData>>
            [] result.kind = "empty" ->
                 /\ ttsLogs' = appendTtsLog(responded, "ERROR", segment.text)
                 /\ UNCHANGED <<audioGeneratedSuccessfully, mainChannelData>>
            [] result.kind = "audio" ->
                 /\ audioGeneratedSuccessfully' = TRUE
                 /\ IF ~result.valid \/ pcm.threw
                    THEN /\ ttsLogs' = catchTtsError(responded, segment.text)
                         /\ UNCHANGED mainChannelData
                    ELSE /\ ttsLogs' = responded
                         /\ mainChannelData' =
                               placeSegment(mainChannelData, pcm.channelData[1],
                                            dubStartSample(segment.startTime))
       /\ UNCHANGED <<stage, processInputs, translationResponse,
                      translatedSegments, processingState, error, idleInProcess>>

TtsThrows == Synthesize(TtsThrown)
TtsReturnsNoAudio == Synthesize(TtsEmpty)
TtsReturnsAudio == \E result \in TtsAudioResponses : Synthesize(result)

\* The loop has ended: lines 281-286 and the catch block.
FinishSynthesis ==
    /\ stage = "synthesizing"
    /\ segmentIndex > Len(translatedSegments)
    /\ IF ~audioGeneratedSuccessfully
       THEN /\ error' = AllFailedMessage
            /\ processingState' = "error"
            /\ stage' = "failed"
       ELSE /\ stage' = "reconstructing"
            /\ UNCHANGED <<error, processingState>>
    /\ UNCHANGED <<processInputs, translationResponse, translatedSegments,
                   segmentIndex, ttsRequests, ttsResults, ttsLogs,
                   audioGeneratedSuccessfully, mainChannelData, idleInProcess>>

NextProcess ==
    \/ Translate
    \/ TranslationFails
    \/ SkipSegment
    \/ TtsThrows
    \/ TtsReturnsNoAudio
    \/ TtsReturnsAudio
    \/ FinishSynthesis

SpecProcess == InitProcess /\ [][NextProcess]_vars

(***************************************************************************)
(* Properties of processVideo.                                             *)
(***************************************************************************)
\* Segment i has text to speak and a voice to speak it with.
HasTextAndVoice(i) ==
    /\ translatedSegments[i].text # <<>>
    /\ speakerProfiles[translatedSegments[i].speakerId] # ""

\* The segments among the first n that have text and a voice, in order.
RECURSIVE SegmentsToSpeak(_)
SegmentsToSpeak(n) ==
    IF n = 0 THEN <<>>
    ELSE IF HasTextAndVoice(n) THEN Append(SegmentsToSpeak(n - 1), n)
    ELSE SegmentsToSpeak(n - 1)

\* The positions in ttsLogs of the first n requests' REQUEST entries.
RECURSIVE RequestEntries(_)
RequestEntries(p) ==
    IF p = 0 THEN <<>>
    ELSE IF ttsLogs[p].kind = "REQUEST" THEN Append(RequestEntries(p - 1), p)
    ELSE RequestEntries(p - 1)

\* The last log entry written for the k-th request: the one before the next
\* request's REQUEST entry, or the last one of all.
LastEntryOf(k) ==
    LET at == RequestEntries(Len(ttsLogs))
    IN IF k < Len(at) THEN ttsLogs[at[k + 1] - 1] ELSE ttsLogs[Len(ttsLogs)]

SynthesisFailed(result) == result.kind \in {"throws", "empty"}

\* C13: a speech-synthesis call that throws, or returns no audio payload, is
\* a failure of its segment only: a log entry is appended for it, the status
\* does not become 'error' because of it, and every later segment with text
\* and a voice is still attempted, in order.
C13_SegmentFailureIsLocal ==
    stage \in {"synthesizing", "reconstructing", "failed"} =>
        /\ stage = "synthesizing" =>
              /\ processingState = "processing"
              /\ error = "null"
              /\ ttsRequests = SegmentsToSpeak(segmentIndex - 1)
        /\ stage = "reconstructing" =>
              /\ processingState = "processing"
              /\ ttsRequests = SegmentsToSpeak(Len(translatedSegments))
        /\ Len(ttsResults) = Len(ttsRequests)
        /\ Len(RequestEntries(Len(ttsLogs))) = Len(ttsRequests)
        /\ \A k \in 1..Len(ttsResults) :
              SynthesisFailed(ttsResults[k]) =>
                  /\ LastEntryOf(k).kind =
                        (IF ttsResults[k].kind = "throws" THEN "EXCEPTION"
                         ELSE "ERROR")
                  /\ LastEntryOf(k).text = translatedSegments[ttsRequests[k]].text
        /\ processingState = "error" =>
              \/ error = TranslationFailedMessage
              \/ \A k \in 1..Len(ttsResults) : ttsResults[k].kind # "audio"

\* The first request throws, the second one is made all the same and comes
\* back without audio; both are logged and the status is still 'processing'.
C13_Witness ==
    /\ stage = "synthesizing"
    /\ ttsRequests = <<1, 2>>
    /\ ttsResults = <<TtsThrown, TtsEmpty>>
    /\ Len(ttsLogs) = 5
    /\ processingState = "processing"

\* floor(startTime x 24000) and ceil(duration x 24000), times in ticks of
\* 1/48000 s
ExpectedDubStart(i) ==
    CHOOSE f \in 0..MaxTicks :
        /\ f * 2 <= translatedSegments[i].startTime
        /\ translatedSegments[i].startTime < (f + 1) * 2

ExpectedDubLength ==
    CHOOSE n \in 0..MaxTicks :
        /\ n * 2 >= videoDuration
        /\ (n - 1) * 2 < videoDuration

\* The k-th request produced usable audio: a payload that is base64 for a
\* whole, positive number of 16-bit frames that fit in the dub buffer from
\* the segment's start.
ProducedUsableAudio(k) ==
    /\ ttsResults[k].kind = "audio"
    /\ ttsResults[k].valid
    /\ Len(ttsResults[k].bytes) > 0
    /\ Len(ttsResults[k].bytes) % 2 = 0
    /\ ExpectedDubStart(ttsRequests[k]) + Len(ttsResults[k].bytes) \div 2
          <= ExpectedDubLength

\* C14: the synthesis stage ends with the fatal all-segments-failed error
\* when, and only when, no segment produced usable audio (audio that was
\* decoded and placed on the dub buffer).
C14_FatalIffNoUsableAudio ==
    (stage \in {"reconstructing", "failed"} /\ error # TranslationFailedMessage) =>
        ((/\ stage = "failed"
          /\ processingState = "error"
          /\ error = AllFailedMessage)
            <=> ~(\E k \in 1..Len(ttsResults) : ProducedUsableAudio(k)))

\* The snippets of the translation response.
Snippets == translatedTextsOf(translationResponse)

\* C15: translated snippet i is the text of segment i; a segment whose
\* snippet is missing or empty gets the empty text, no speech-synthesis
\* request is issued for it, and the segments after it are processed without
\* abort.
C15_SnippetPerSegment ==
    stage \in {"synthesizing", "reconstructing"} =>
        /\ Len(translatedSegments) = Len(allDialogueSegments)
        /\ \A i \in 1..Len(translatedSegments) :
              /\ translatedSegments[i].speakerId = allDialogueSegments[i].speakerId
              /\ translatedSegments[i].startTime = allDialogueSegments[i].startTime
              /\ translatedSegments[i].text =
                    (IF i <= Len(Snippets) THEN Snippets[i] ELSE <<>>)
              /\ translatedSegments[i].text = <<>> =>
                    \A k \in 1..Len(ttsRequests) : ttsRequests[k] # i
              /\ (i < segmentIndex /\ HasTextAndVoice(i)) =>
                    \E k \in 1..Len(ttsRequests) : ttsRequests[k] = i
        /\ processingState = "processing"
        /\ error = "null"

\* The first snippet is empty and the second is not: no request for
\* segment 1, one for segment 2.
C15_Witness ==
    /\ stage = "reconstructing"
    /\ translationResponse = <<Blank, Separator, "hola">>
    /\ Len(translatedSegments) = 2
    /\ translatedSegments[1].text = <<>>
    /\ ttsRequests = <<2>>
    /\ processingState = "processing"

\* The samples the k-th request rendered, none when it rendered no clip.
RenderedClip(k) ==
    IF /\ ttsResults[k].kind = "audio"
       /\ ttsResults[k].valid
       /\ ~manualDecodeAudioData(ttsResults[k].bytes, 1).threw
    THEN manualDecodeAudioData(ttsResults[k].bytes, 1).channelData[1]
    ELSE <<>>

\* What the clip of the k-th request adds at index j (from 0) of the buffer.
ExpectedDubContribution(k, j) ==
    LET start == ExpectedDubStart(ttsRequests[k])
    IN IF start <= j /\ j < start + Len(RenderedClip(k))
       THEN RenderedClip(k)[j - start + 1]
       ELSE 0

RECURSIVE ExpectedDubSum(_, _)
ExpectedDubSum(k, j) ==
    IF k = 0 THEN 0
    ELSE ExpectedDubSum(k - 1, j) + ExpectedDubContribution(k, j)

\* C23: when the synthesis loop of processVideo has ended, every sample of
\* the dub buffer is the sum of what the rendered clips covering its index
\* hold there: a later clip is added to what an earlier clip wrote, and a
\* clip that reaches past the end of the buffer still gives the samples that
\* are inside it.
C23_DubPlacementAccumulates ==
    stage = "reconstructing" =>
        \A j \in 0..(Len(mainChannelData) - 1) :
            mainChannelData[j + 1] = ExpectedDubSum(Len(ttsResults), j)

(***************************************************************************)
(*      TranslationOptimizer.ts: batchOptimizeTranslations                 *)
(*                                                                         *)
(* A segment is the record [speakerId, startTime, endTime]; the            *)
(* transcription only goes into the prompt.  The text a call of            *)
(* optimizeTranslation returns is the model's answer, any text.            *)
(***************************************************************************)
\* The state of the loop of groupSegmentsBySpeaker before its first
\* iteration: let currentGroup = null; let currentSpeakerId = ''.
groupLoopInit ==
    [groups           |-> <<>>,
     hasCurrentGroup  |-> FALSE,
     currentGroup     |-> <<>>,
     currentSpeakerId |-> ""]

pushGroup(st) ==
    IF st.hasCurrentGroup
    THEN Append(st.groups,
                [speakerId |-> st.currentSpeakerId,
                 startTime |-> st.currentGroup[1].startTime,
                 segments  |-> st.currentGroup])
    ELSE st.groups

\* One iteration of the loop of groupSegmentsBySpeaker.  currentGroup?.push
\* does nothing while currentGroup is null.
groupLoopBody(st, segment) ==
    IF segment.speakerId # st.currentSpeakerId
    THEN [groups           |-> pushGroup(st),
          hasCurrentGroup  |-> TRUE,
          currentGroup     |-> <<segment>>,
          currentSpeakerId |-> segment.speakerId]
    ELSE [st EXCEPT !.currentGroup =
                        IF st.hasCurrentGroup THEN Append(@, segment) ELSE @]

RECURSIVE groupLoop(_, _)
groupLoop(segs, n) ==
    IF n = 0 THEN groupLoopInit
    ELSE groupLoopBody(groupLoop(segs, n - 1), segs[n])

groupSegmentsBySpeaker(segs) == pushGroup(groupLoop(segs, Len(segs)))

contextWindow == 30     \* Math.abs(s.startTime - group.startTime) < 30

\* The filter of contextSegments for the segment at place i (from 1).
\* segments.indexOf(s) is i - 1, and segments.indexOf(group) is -1 because a
\* group is not an element of segments.
inContext(segs, i, group) ==
    /\ Abs(segs[i].startTime - group.startTime) < contextWindow
    /\ \/ segs[i].speakerId = group.speakerId
       \/ i - 1 = (-1) - 1
       \/ i - 1 = (-1) + 1

\* segments.filter(...): the places of the first n segments that pass
RECURSIVE contextSegments(_, _, _)
contextSegments(segs, group, n) ==
    IF n = 0 THEN <<>>
    ELSE IF inContext(segs, n, group)
         THEN Append(contextSegments(segs, group, n - 1), n)
         ELSE contextSegments(segs, group, n - 1)

\* Speaker ids as the transcription gives them, the empty string included.
BatchSpeakers == Speakers \cup {""}

BatchInputs ==
    SeqsUpTo({[speakerId |-> sp, startTime |-> t, endTime |-> t + 1] :
                 sp \in BatchSpeakers, t \in {0, 40}}, MaxSegs)

OptimizedTexts == {"hola", ""}

InitOptimizer ==
    /\ stage = "batch"
    /\ ChunkerIdle
    /\ CodecIdle
    /\ MixerIdle
    /\ ProcessIdle
    /\ AppIdle
    /\ RecorderIdle
    /\ batchSegments \in BatchInputs
    /\ groupedSegments = <<>>
    /\ batchResult = <<>>
    /\ contextCalls = <<>>

idleInOptimizer ==
    <<chunkerVars, codecVars, mixerVars, processVars, appVars, recorderVars>>

\* batchOptimizeTranslations up to its first await.
GroupSegments ==
    /\ stage = "batch"
    /\ groupedSegments' = groupSegmentsBySpeaker(batchSegments)
    /\ stage' = "optimizing"
    /\ UNCHANGED <<batchSegments, batchResult, contextCalls, idleInOptimizer>>

\* The groups left once the first segment of the first group is done.
restOfGroups(groups) ==
    IF Len(Head(groups).segments) > 1
    THEN <<[Head(groups) EXCEPT !.segments = Tail(@)]>> \o Tail(groups)
    ELSE Tail(groups)

\* A call of optimizeTranslation returns: translatedSegments.push({...}).
OptimizeTranslationReturns ==
    /\ stage = "optimizing"
    /\ groupedSegments # <<>>
    /\ \E optimizedTranslation \in OptimizedTexts :
          LET segment == Head(groupedSegments).segments[1]
          IN batchResult' =
                Append(batchResult,
                       [speakerId |-> segment.speakerId,
                        text      |-> optimizedTranslation,
                        startTime |-> segment.startTime,
                        endTime   |-> segment.endTime])
    /\ groupedSegments' = restOfGroups(groupedSegments)
    /\ contextCalls' =
          Append(contextCalls,
                 contextSegments(batchSegments, Head(groupedSegments),
                                 Len(batchSegments)))
    /\ UNCHANGED <<stage, batchSegments, idleInOptimizer>>

\* A call of optimizeTranslation rejects: the rejection leaves the function.
OptimizeTranslationRejects ==
    /\ stage = "optimizing"
    /\ groupedSegments # <<>>
    /\ stage' = "rejected"
    /\ contextCalls' =
          Append(contextCalls,
                 contextSegments(batchSegments, Head(groupedSegments),
                                 Len(batchSegments)))
    /\ UNCHANGED <<batchSegments, groupedSegments, batchResult, idleInOptimizer>>

\* return translatedSegments
ReturnTranslations ==
    /\ stage = "optimizing"
    /\ groupedSegments = <<>>
    /\ stage' = "returned"
    /\ UNCHANGED <<batchSegments, groupedSegments, batchResult, contextCalls,
                   idleInOptimizer>>

NextOptimizer ==
    \/ GroupSegments
    \/ OptimizeTranslationReturns
    \/ OptimizeTranslationRejects
    \/ ReturnTranslations

SpecOptimizer == InitOptimizer /\ [][NextOptimizer]_vars

\* C16: batchOptimizeTranslations returns exactly one TranslatedSegment per
\* input segment, in input order, each with the speakerId, startTime and
\* endTime of its source segment, for every input sequence (an empty-string
\* speakerId included), provided every optimizeTranslation call returns.
C16_OneTranslationPerSegment ==
    stage = "returned" =>
        /\ Len(batchResult) = Len(batchSegments)
        /\ \A i \in 1..Len(batchResult) :
              /\ batchResult[i].speakerId = batchSegments[i].speakerId
              /\ batchResult[i].startTime = batchSegments[i].startTime
              /\ batchResult[i].endTime = batchSegments[i].endTime

\* The number of leading segments that groupSegmentsBySpeaker leaves out of
\* every group (see C16): the k-th call is for the segment at place
\* LeadingDropped + k.
RECURSIVE LeadingDropped(_, _)
LeadingDropped(segs, i) ==
    IF i > Len(segs) \/ segs[i].speakerId # "" THEN i - 1
    ELSE LeadingDropped(segs, i + 1)

\* The first and the last place of the same-speaker run that holds place p.
RECURSIVE RunStart(_, _)
RunStart(segs, p) ==
    IF p > 1 /\ segs[p - 1].speakerId = segs[p].speakerId
    THEN RunStart(segs, p - 1) ELSE p

RECURSIVE RunEnd(_, _)
RunEnd(segs, p) ==
    IF p < Len(segs) /\ segs[p + 1].speakerId = segs[p].speakerId
    THEN RunEnd(segs, p + 1) ELSE p

PlacesOf(context) == {context[j] : j \in 1..Len(context)}

\* The places next to the run of place p, before it and after it.
AdjacentPlaces(segs, p) ==
    {RunStart(segs, p) - 1, RunEnd(segs, p) + 1} \cap (1..Len(segs))

WithinWindow(segs, i, p) ==
    Abs(segs[i].startTime - segs[RunStart(segs, p)].startTime) < contextWindow

\* C21: the context of every optimizeTranslation call holds only segments
\* that start within 30 seconds of the group's startTime, and it holds the
\* other speakers' segments next to the group (the one just before it and the
\* one just after it in the input) that start within those 30 seconds.
C21_ContextHasAdjacentSegments ==
    \A k \in 1..Len(contextCalls) :
        LET p == LeadingDropped(batchSegments, 1) + k
        IN /\ \A i \in PlacesOf(contextCalls[k]) :
                 WithinWindow(batchSegments, i, p)
           /\ \A i \in AdjacentPlaces(batchSegments, p) :
                 WithinWindow(batchSegments, i, p) =>
                     i \in PlacesOf(contextCalls[k])

(***************************************************************************)
(*        App (types.ts) and the head of useVideoProcessor                 *)
(*                                                                         *)
(* Every handler that sets state is followed by a render: the render       *)
(* calls the hook with the current apiKey, useCallback hands back the      *)
(* processVideo it has cached or a new one, and renderContent gives the    *)
(* view.  processVideo past its first lines is the subject of SpecProcess  *)
(* and SpecRecording.                                                      *)
(***************************************************************************)
ApiKeyMissingMessage == "API key is missing. Please enter your API key."
EnterKeyAlert == "Please enter your Gemini API key."
InvalidFileAlert == "Please select a valid video file."

\* constants.ts: LANGUAGES.map(lang => lang.code)
LanguageCodes == {"es", "fr", "de", "ja", "it", "pt", "ko"}

\* What the key field can hold: e.target.value
ApiKeyInputs == {"", "key-1", "key-2"}

\* What a file input or a drop can give: no file (files?.[0] undefined), a
\* file whose type starts with 'video/', a file of another type.
FileInputs ==
    {[name |-> "undefined", isVideo |-> FALSE],
     [name |-> "a.mp4", isVideo |-> TRUE],
     [name |-> "b.webm", isVideo |-> TRUE],
     [name |-> "notes.txt", isVideo |-> FALSE]}

\* useCallback(fn, deps): the cached function unless a dependency changed.
\* A function is stood for by the apiKey it closed over.
useCallback(cached, fresh, depsChanged) ==
    IF depsChanged THEN fresh ELSE cached

\* The dependencies of processVideo are [appendTtsLog], and appendTtsLog is
\* useCallback(..., []): they never change after the first render.
processVideoDepsChanged == FALSE

\* renderContent: switch (processingState.status).  The 'done' branch
\* evaluates URL.createObjectURL(videoFile!), which throws a TypeError when
\* videoFile is null; nothing catches it and React unmounts the App.
renderContent(status, file) ==
    CASE status = "processing" -> "processing"
      [] status = "error" -> "error"
      [] status = "done" -> IF file = "null" THEN "unmounted" ELSE "result"
      [] OTHER -> "upload"

\* A render of App after a handler has set state.
Render ==
    /\ processVideoApiKey' =
          useCallback(processVideoApiKey, apiKey', processVideoDepsChanged)
    /\ renderedView' = renderContent(processingState', videoFile')

InitApp ==
    /\ stage = "app"
    /\ ChunkerIdle
    /\ CodecIdle
    /\ MixerIdle
    /\ ProcessIdle
    /\ OptimizerIdle
    /\ RecorderIdle
    /\ apiKey = ""
    /\ videoFile = "null"
    /\ targetLang = "es"
    /\ processVideoApiKey = apiKey
    /\ renderedView = renderContent(processingState, videoFile)
    /\ lastAlert = "none"

\* The state of the hook that the App model leaves alone.
hookRest ==
    <<allDialogueSegments, speakerProfiles, videoDuration, translationResponse,
      translatedSegments, segmentIndex, ttsRequests, ttsResults,
      audioGeneratedSuccessfully, mainChannelData>>

idleInApp ==
    <<stage, chunkerVars, codecVars, mixerVars, optimizerVars, recorderVars,
      hookRest>>

\* handleApiKeyChange: setApiKey(e.target.value)
HandleApiKeyChange ==
    /\ renderedView = "upload"
    /\ \E value \in ApiKeyInputs : apiKey' = value
    /\ UNCHANGED <<videoFile, targetLang, lastAlert, processingState, error,
                   ttsLogs, idleInApp>>
    /\ Render

\* handleFileChange and handleDrop of FileUpload
selectFile(file) ==
    /\ renderedView = "upload"
    /\ IF file.name # "undefined" /\ file.isVideo
       THEN /\ videoFile' = file.name
            /\ UNCHANGED lastAlert
       ELSE /\ videoFile' = "null"
            /\ lastAlert' = InvalidFileAlert
    /\ UNCHANGED <<apiKey, targetLang, processingState, error, ttsLogs,
                   idleInApp>>
    /\ Render

HandleFileChange == \E file \in FileInputs : selectFile(file)

HandleDrop == \E file \in FileInputs : selectFile(file)

\* "Choose a different video": setVideoFile(null)
ChooseDifferentVideo ==
    /\ renderedView = "upload"
    /\ videoFile # "null"
    /\ videoFile' = "null"
    /\ UNCHANGED <<apiKey, targetLang, lastAlert, processingState, error,
                   ttsLogs, idleInApp>>
    /\ Render

\* The language select (disabled={!videoFile}): setTargetLang(e.target.value)
SetTargetLang ==
    /\ renderedView = "upload"
    /\ videoFile # "null"
    /\ \E code \in LanguageCodes : targetLang' = code
    /\ UNCHANGED <<apiKey, videoFile, lastAlert, processingState, error,
                   ttsLogs, idleInApp>>
    /\ Render

\* The Start button (disabled={!videoFile || isProcessing}): the
\* handleStartProcessing of the last render, and processVideo up to its
\* first await.
HandleStartProcessing ==
    /\ renderedView = "upload"
    /\ videoFile # "null"
    /\ processingState = "idle"
    /\ IF apiKey = ""
       THEN /\ lastAlert' = EnterKeyAlert
            /\ UNCHANGED <<processingState, error, ttsLogs>>
       ELSE /\ UNCHANGED lastAlert
            /\ IF processVideoApiKey = ""
               THEN /\ error' = ApiKeyMissingMessage
                    /\ processingState' = "error"
                    /\ UNCHANGED ttsLogs
               ELSE /\ processingState' = "processing"
                    /\ error' = "null"
                    /\ ttsLogs' = <<>>
    /\ UNCHANGED <<apiKey, videoFile, targetLang, idleInApp>>
    /\ Render

\* handleReset, the onClick of "Try Again" and the onReset of ResultView:
\* setVideoFile(null)
HandleReset ==
    /\ renderedView \in {"error", "result"}
    /\ videoFile' = "null"
    /\ UNCHANGED <<apiKey, targetLang, lastAlert, processingState, error,
                   ttsLogs, idleInApp>>
    /\ Render

NextApp ==
    \/ HandleApiKeyChange
    \/ HandleFileChange
    \/ HandleDrop
    \/ ChooseDifferentVideo
    \/ SetTargetLang
    \/ HandleStartProcessing
    \/ HandleReset

SpecApp == InitApp /\ [][NextApp]_vars

\* C24: when Start is pressed while the key field holds a non-empty key,
\* processVideo runs with that key: the status becomes 'processing' and the
\* error is not the missing-key message.
C24_StartUsesEnteredKey ==
    [][(HandleStartProcessing /\ apiKey # "")
            => (processingState' = "processing" /\ error' # ApiKeyMissingMessage)]_vars

\* C25: pressing the reset control in the error view or the result view
\* brings back the upload view, from which a new run can be started.
C25_ResetShowsUploadView ==
    [][HandleReset => renderedView' = "upload"]_vars

(***************************************************************************)
(*      useVideoProcessor.ts: processVideo, the reconstruction stage       *)
(*                                                                         *)
(* processVideo goes on from stage "reconstructing".  The browser runs one *)
(* task at a time and, after each task, every queued microtask before the  *)
(* next task: the continuation of an await is a microtask queued when the  *)
(* awaited promise settles.  The media element queues its tasks (resolve   *)
(* or reject the promise of play(), fire 'ended') on one task source, so   *)
(* they run in the order they were queued; the MediaRecorder queues its    *)
(* own.  Playback can reach its end only after it has started, and the     *)
(* task that resolves the promise of play() is queued when it starts.      *)
(***************************************************************************)
EmptyRecordingMessage ==
    "Recording resulted in an empty file, likely due to a media pipeline issue."
RecorderErrorMessage == "A MediaRecorder error occurred."
PlayRejectedMessage == "play() was rejected"
ResumeRejectedMessage == "resume() was rejected"
SetUpFailedMessage == "captureStream or MediaRecorder is not supported"
StartFailedMessage == "recorder.start() threw"

\* The size of the blob a dataavailable event carries.
BlobSizes == {0, 1}

\* The transcriptions the reconstruction stage is reached from.
InitRecording ==
    /\ InitProcess
    /\ Len(allDialogueSegments) = 1

\* if (recorder.state === 'recording') recorder.stop()
stopsRecorderNever(state) == FALSE

stopsRecorder(state) == state = "recording"

\* new Blob(recordedChunks).size
RECURSIVE blobSize(_)
blobSize(sizes) ==
    IF sizes = <<>> THEN 0 ELSE Head(sizes) + blobSize(Tail(sizes))

Continuation(kind, message) == [kind |-> kind, message |-> message]

recordingRest ==
    <<chunkerVars, codecVars, mixerVars, optimizerVars, appVars,
      allDialogueSegments, speakerProfiles, videoDuration, translationResponse,
      translatedSegments, segmentIndex, ttsRequests, ttsResults, ttsLogs,
      audioGeneratedSuccessfully, mainChannelData>>

\* The catch block, and the finally block after it.
Catch(message) ==
    /\ error' = message
    /\ processingState' = "error"
    /\ stage' = "failed"

\* audioContext.state === 'suspended': await audioContext.resume()
ResumeAudioContext ==
    /\ stage = "reconstructing"
    /\ stage' = "awaitResume"
    /\ UNCHANGED <<processingState, error, recorderVars, recordingRest>>

\* The promise of resume() rejects.
ResumeRejects ==
    /\ stage = "awaitResume"
    /\ Catch(ResumeRejectedMessage)
    /\ UNCHANGED <<recorderVars, recordingRest>>

\* Lines 292-329, with the audio context running or resumed: the recorder
\* and the handlers are set up and videoElement.play() is called.
StartPlayback ==
    /\ stage \in {"reconstructing", "awaitResume"}
    /\ playback' = "waiting"
    /\ stage' = "awaitPlay"
    /\ UNCHANGED <<processingState, error, playPromise, recorderState,
                   recordedChunks, recordingPromise, mediaTasks, recorderTasks,
                   microtasks, dubbedVideoUrl, endedWhileAwaitingPlay,
                   recordingRest>>

\* captureStream is missing or new MediaRecorder throws.
SetUpThrows ==
    /\ stage \in {"reconstructing", "awaitResume"}
    /\ Catch(SetUpFailedMessage)
    /\ UNCHANGED <<recorderVars, recordingRest>>

\* The video starts to play: the media element queues the task that
\* resolves the promise of play().
PlaybackStarts ==
    /\ playback = "waiting"
    /\ playback' = "playing"
    /\ mediaTasks' = Append(mediaTasks, "resolvePlay")
    /\ UNCHANGED <<stage, processingState, error, playPromise, recorderState,
                   recordedChunks, recordingPromise, recorderTasks, microtasks,
                   dubbedVideoUrl, endedWhileAwaitingPlay, recordingRest>>

\* The video cannot be played: the media element queues the task that
\* rejects the promise of play().
PlaybackFails ==
    /\ playback = "waiting"
    /\ playback' = "paused"
    /\ mediaTasks' = Append(mediaTasks, "rejectPlay")
    /\ UNCHANGED <<stage, processingState, error, playPromise, recorderState,
                   recordedChunks, recordingPromise, recorderTasks, microtasks,
                   dubbedVideoUrl, endedWhileAwaitingPlay, recordingRest>>

\* Playback reaches the end of the video: the media element queues the task
\* that fires 'ended'.
PlaybackReachesEnd ==
    /\ playback = "playing"
    /\ playback' = "ended"
    /\ mediaTasks' = Append(mediaTasks, "ended")
    /\ endedWhileAwaitingPlay' = (stage = "awaitPlay")
    /\ UNCHANGED <<stage, processingState, error, playPromise, recorderState,
                   recordedChunks, recordingPromise, recorderTasks, microtasks,
                   dubbedVideoUrl, recordingRest>>

\* The recorder fails while recording: it becomes inactive and queues the
\* task of its error event and the task of its last data and stop events.
RecorderFails ==
    /\ recorderState = "recording"
    /\ recorderState' = "inactive"
    /\ recorderTasks' = recorderTasks \o <<"error", "stop">>
    /\ UNCHANGED <<stage, processingState, error, playback, playPromise,
                   recordedChunks, recordingPromise, mediaTasks, microtasks,
                   dubbedVideoUrl, endedWhileAwaitingPlay, recordingRest>>

\* The next task of the media element runs.
RunMediaTask ==
    /\ microtasks = <<>>
    /\ mediaTasks # <<>>
    /\ mediaTasks' = Tail(mediaTasks)
    /\ CASE Head(mediaTasks) = "resolvePlay" ->
              /\ playPromise' = "resolved"
              /\ microtasks' = <<Continuation("afterPlay", "")>>
              /\ UNCHANGED <<recorderState, recorderTasks>>
         [] Head(mediaTasks) = "rejectPlay" ->
              /\ playPromise' = "rejected"
              /\ microtasks' = <<Continuation("catch", PlayRejectedMessage)>>
              /\ UNCHANGED <<recorderState, recorderTasks>>
         [] Head(mediaTasks) = "ended" ->
              \* videoElement.onended
              /\ IF stopsRecorder(recorderState)
                 THEN /\ recorderState' = "inactive"
                      /\ recorderTasks' = Append(recorderTasks, "stop")
                 ELSE UNCHANGED <<recorderState, recorderTasks>>
              /\ UNCHANGED <<playPromise, microtasks>>
    /\ UNCHANGED <<stage, processingState, error, playback, recordedChunks,
                   recordingPromise, dubbedVideoUrl, endedWhileAwaitingPlay,
                   recordingRest>>

\* recordingPromise settles: the continuation of `await recordingPromise`
\* is queued if processVideo is at that await.
settleRecording(outcome, message) ==
    IF recordingPromise = "pending"
    THEN /\ recordingPromise' = outcome
         /\ microtasks' =
               IF stage = "awaitRecording"
               THEN <<Continuation(IF outcome = "resolved"
                                   THEN "afterRecording" ELSE "catch",
                                   message)>>
               ELSE <<>>
    ELSE UNCHANGED <<recordingPromise, microtasks>>

\* The next task of the recorder runs: recorder.onerror, or
\* recorder.ondataavailable followed by recorder.onstop.
RunRecorderTask ==
    /\ microtasks = <<>>
    /\ recorderTasks # <<>>
    /\ recorderTasks' = Tail(recorderTasks)
    /\ CASE Head(recorderTasks) = "error" ->
              /\ settleRecording("rejected", RecorderErrorMessage)
              /\ UNCHANGED <<recordedChunks, dubbedVideoUrl>>
         [] Head(recorderTasks) = "stop" ->
              \E size \in BlobSizes :
                 /\ recordedChunks' =
                       IF size > 0 THEN Append(recordedChunks, size)
                       ELSE recordedChunks
                 /\ IF blobSize(recordedChunks') = 0
                    THEN /\ settleRecording("rejected", EmptyRecordingMessage)
                         /\ UNCHANGED dubbedVideoUrl
                    ELSE /\ dubbedVideoUrl' = "blob:"
                         /\ settleRecording("resolved", "")
    /\ UNCHANGED <<stage, processingState, error, playback, playPromise,
                   recorderState, mediaTasks, endedWhileAwaitingPlay,
                   recordingRest>>

\* The continuation of `await videoElement.play()`: recorder.start(), which
\* sets recorder.state, then `await recordingPromise`.
AfterPlay ==
    /\ microtasks # <<>>
    /\ Head(microtasks).kind = "afterPlay"
    /\ recorderState' = "recording"
    /\ stage' = "awaitRecording"
    /\ microtasks' =
          IF recordingPromise = "pending" THEN <<>>
          ELSE <<Continuation(IF recordingPromise = "resolved"
                              THEN "afterRecording" ELSE "catch",
                              RecorderErrorMessage)>>
    /\ UNCHANGED <<processingState, error, playback, playPromise,
                   recordedChunks, recordingPromise, mediaTasks, recorderTasks,
                   dubbedVideoUrl, endedWhileAwaitingPlay, recordingRest>>

\* The same continuation when recorder.start() throws.
RecorderStartThrows ==
    /\ microtasks # <<>>
    /\ Head(microtasks).kind = "afterPlay"
    /\ Catch(StartFailedMessage)
    /\ microtasks' = <<>>
    /\ UNCHANGED <<playback, playPromise, recorderState, recordedChunks,
                   recordingPromise, mediaTasks, recorderTasks, dubbedVideoUrl,
                   endedWhileAwaitingPlay, recordingRest>>

\* The continuation of `await recordingPromise`: line 333.
AfterRecording ==
    /\ microtasks # <<>>
    /\ Head(microtasks).kind = "afterRecording"
    /\ processingState' = "done"
    /\ stage' = "done"
    /\ microtasks' = <<>>
    /\ UNCHANGED <<error, playback, playPromise, recorderState, recordedChunks,
                   recordingPromise, mediaTasks, recorderTasks, dubbedVideoUrl,
                   endedWhileAwaitingPlay, recordingRest>>

\* An awaited promise rejected: the catch block.
CatchRejection ==
    /\ microtasks # <<>>
    /\ Head(microtasks).kind = "catch"
    /\ Catch(Head(microtasks).message)
    /\ microtasks' = <<>>
    /\ UNCHANGED <<playback, playPromise, recorderState, recordedChunks,
                   recordingPromise, mediaTasks, recorderTasks, dubbedVideoUrl,
                   endedWhileAwaitingPlay, recordingRest>>

RunMicrotask ==
    \/ AfterPlay
    \/ RecorderStartThrows
    \/ AfterRecording
    \/ CatchRejection

NextRecording ==
    \/ ResumeAudioContext
    \/ ResumeRejects
    \/ StartPlayback
    \/ SetUpThrows
    \/ PlaybackStarts
    \/ PlaybackFails
    \/ PlaybackReachesEnd
    \/ RecorderFails
    \/ RunMediaTask
    \/ RunRecorderTask
    \/ RunMicrotask

SpecRecording == InitRecording /\ [][NextProcess \/ NextRecording]_vars

\* The event loop runs every queued task and microtask in the end.
FairEventLoop ==
    /\ WF_vars(RunMediaTask)
    /\ WF_vars(RunRecorderTask)
    /\ WF_vars(AfterPlay \/ AfterRecording \/ CatchRejection)

SpecRecordingFair == SpecRecording /\ FairEventLoop

\* C26: once the playback of the video has ended in the reconstruction
\* stage, the status leaves 'processing' in the end ('done' or 'error'),
\* whether playback ended before or after recorder.start() ran.
C26_LeavesProcessingAfterPlaybackEnds ==
    (playback = "ended") ~> (processingState # "processing")

\* Playback ended while processVideo was still at `await play()`, and the
\* run ended 'done' with a dubbed video.
C26_Witness ==
    /\ endedWhileAwaitingPlay
    /\ playback = "ended"
    /\ processingState = "done"
    /\ dubbedVideoUrl # ""

====
